---------------------------- MODULE Spec2Model ----------------------------
(***************************************************************************)
(* A model of the core of the JMAP server: the Raft commit-index           *)
(* advancement and the synchronous commit wait (cluster/raft/commit.rs),   *)
(* the JMAP Email/set coordinator (jmap_mail/src/mail/set.rs), the change  *)
(* log reader (store/src/changelog.rs) and the log compaction              *)
(* (store/src/log/compact.rs).                                             *)
(*                                                                         *)
(* Each subsystem has its own specification over the shared variables; a  *)
(* specification leaves the variables of the other subsystems at their     *)
(* idle values.                                                            *)
(***************************************************************************)
EXTENDS Integers, Sequences, FiniteSets, TLC

VARIABLES
    \* ---- Cluster (the leader's state, cluster/raft/commit.rs) ----
    peers,              \* PeerId -> [in_shard, commit_index]
    uncommitted_index,  \* Cluster::uncommitted_index
    last_log,           \* Cluster::last_log: [index, term]
    term,               \* Cluster::term
    commit_index_tx,    \* the watch channel: [value, version, closed]
    events,             \* the cluster event channel (mpsc), a sequence
    \* ---- JMAPServer::commit_index (one request-scoped waiter) ----
    clustered,          \* self.cluster.is_some()
    is_leader,          \* self.is_leader()
    waiter,             \* the waiter's position and locals
    now,                \* the clock, in ms
    \* ---- The store of one account, as mail_set reads and writes it ----
    messages,           \* DocumentId -> [live, mailboxes, keywords] (Mail)
    change_ids,         \* the last change id of Mail
    calls,              \* the mail_set calls in progress
    \* ---- The Logs column family, its readers and compact_log ----
    logs,               \* (account, collection) -> change id -> value
    raft,               \* Raft index -> value
    changelog,          \* the last reply of get_changes, if any
    last_change,        \* the last reply of get_last_change_id, if any
    compaction,         \* the last compact_log call, the build, a panic
    \* ---- LocalBlobStore: the blob files and the calls made ----
    files,              \* BlobId -> [exists, bytes]
    blob_stats,         \* BlobId -> [puts, deletes]
    blob_op,            \* the last call of the blob store and its result
    put_calls,          \* the puts made step by step: caller -> position
    \* ---- GetHelper: one get in progress ----
    get_helper,         \* the helper's fields and its position
    \* ---- TinyORM: the ACL list of one document being edited ----
    orm,                \* [acls, finished, prev, changed]
    \* ---- JMAPIdSerialize: the last conversion made ----
    codec,              \* [op, id, string, parsed]
    \* ---- JMAPMailSet::import_body_structure: one call ----
    body_import         \* [pc, part, mime_part, it, stack, result]

clusterVars == <<peers, uncommitted_index, last_log, term, commit_index_tx, events>>
waitVars == <<clustered, is_leader, waiter, now>>
storeVars == <<messages, change_ids>>
mailVars == <<messages, change_ids, calls>>
logVars == <<logs, raft, changelog, last_change, compaction>>
blobVars == <<files, blob_stats, blob_op, put_calls>>
getVars == <<get_helper>>
aclVars == <<orm>>
codecVars == <<codec>>
importVars == <<body_import>>
nonRaftVars == <<mailVars, logVars, blobVars, getVars, aclVars, codecVars, importVars>>
nonMailVars == <<clusterVars, waitVars, logVars, blobVars, getVars, aclVars, codecVars, importVars>>
nonLogVars == <<clusterVars, waitVars, mailVars, blobVars, getVars, aclVars, codecVars, importVars>>
nonBlobVars == <<clusterVars, waitVars, mailVars, logVars, getVars, aclVars, codecVars, importVars>>
nonGetVars == <<clusterVars, waitVars, mailVars, logVars, blobVars, aclVars, codecVars, importVars>>
nonAclVars == <<clusterVars, waitVars, mailVars, logVars, blobVars, getVars, codecVars, importVars>>
nonCodecVars == <<clusterVars, waitVars, mailVars, logVars, blobVars, getVars, aclVars, importVars>>
nonImportVars == <<clusterVars, waitVars, mailVars, logVars, blobVars, getVars, aclVars, codecVars>>

(***************************************************************************)
(* Bounds.                                                                 *)
(***************************************************************************)
NPeers == 3         \* peers known to the leader (in the shard or not)
MaxIndex == 1       \* Raft log indexes are 0 .. MaxIndex
MaxTime == 3        \* the clock stops at MaxTime
CommitTimeout == 2  \* config.raft_commit_timeout
EventCap == 1       \* capacity of the cluster event channel
MaxDocs == 2        \* Mail DocumentIds are 0 .. MaxDocs - 1
NMailboxes == 2     \* the live mailboxes are 0 .. NMailboxes - 1
MaxChangeId == 3    \* the store accepts writes up to this change id
MaxCreates == 1     \* create entries of one mail_set request
MaxUpdates == 2     \* update entries of one mail_set request
MaxDestroy == 2     \* destroy entries of one mail_set request
NAccounts == 2      \* accounts with a change log
MaxIds == 2         \* JMAP ids of a collection are 1 .. MaxIds
MaxLogIndex == 3    \* Raft indexes and change ids are 1 .. MaxLogIndex
MaxCompactions == 2 \* compact_log calls of a run
MaxBlobLen == 2     \* blobs have 0 .. MaxBlobLen bytes
MaxPuts == 2        \* puts, and deletes, of one blob
MaxObjectsInGet == 2 \* config.max_objects_in_get
IdHexDigits == 2     \* a JMAPId has this many hex digits (16 in the build)
MaxTerm == 2         \* Raft terms are 1 .. MaxTerm
MaxCallers == 2      \* threads calling put, each once
MaxParts == 4        \* parts of a bodyStructure

PeerIds == 1 .. NPeers

(***************************************************************************)
(* LogIndex is an unsigned integer whose greatest value, LogIndex::MAX,    *)
(* stands for "no entry".  The model keeps a width just large enough for   *)
(* the indexes 0 .. MaxIndex and the sentinel.                             *)
(***************************************************************************)
LogIndexMAX == MaxIndex + 1
LogIndexes == 0 .. LogIndexMAX
RealIndexes == 0 .. MaxIndex

wrapping_add(x, y) == (x + y) % (LogIndexMAX + 1)
wrapping_sub(x, y) == (x - y + (LogIndexMAX + 1)) % (LogIndexMAX + 1)

(***************************************************************************)
(* sort_unstable on a vector of integers.                                  *)
(***************************************************************************)
RECURSIVE InsertSorted(_, _)
InsertSorted(s, x) ==
    IF s = <<>> THEN <<x>>
    ELSE IF x <= Head(s) THEN <<x>> \o s
    ELSE <<Head(s)>> \o InsertSorted(Tail(s), x)

RECURSIVE sort_unstable(_)
sort_unstable(s) ==
    IF s = <<>> THEN <<>> ELSE InsertSorted(sort_unstable(Tail(s)), Head(s))

(***************************************************************************)
(* Cluster::advance_commit_index, lines 41-51: the peer whose reply this   *)
(* is records the index when it is larger (or when none was recorded).     *)
(***************************************************************************)
PeerUpdate(p, peer_id, commit_index) ==
    IF peers[p].in_shard /\ p = peer_id
       /\ (commit_index > peers[p].commit_index
           \/ peers[p].commit_index = LogIndexMAX)
    THEN commit_index
    ELSE peers[p].commit_index

\* lines 41-53: the vector `indexes`, before it is sorted.
RECURSIVE CollectIndexes(_, _)
CollectIndexes(p, newPeers) ==
    IF p > NPeers THEN <<wrapping_add(uncommitted_index, 1)>>
    ELSE IF peers[p].in_shard
         THEN <<wrapping_add(newPeers[p], 1)>> \o CollectIndexes(p + 1, newPeers)
         ELSE CollectIndexes(p + 1, newPeers)

\* line 56: indexes[floor(len / 2)], zero-based.
QuorumPosition(len) == (len \div 2) + 1

QuorumIndex(sorted) == sorted[QuorumPosition(Len(sorted))]

\* line 75: tokio::sync::watch::Sender::send stores the value and bumps the
\* version of the channel.
WatchSend(ch, v) == [ch EXCEPT !.value = v, !.version = @ + 1]

advance_commit_index(peer_id, commit_index) ==
    LET newPeers == [p \in PeerIds |-> PeerUpdate(p, peer_id, commit_index)]
        indexes == sort_unstable(CollectIndexes(1, newPeers))
        ci == QuorumIndex(indexes)
    IN  /\ peers' = [p \in PeerIds |-> [peers[p] EXCEPT !.commit_index = newPeers[p]]]
        /\ IF ci > wrapping_add(last_log.index, 1)
           THEN /\ last_log' = [index |-> wrapping_sub(ci, 1), term |-> term]
                /\ commit_index_tx' = WatchSend(commit_index_tx, wrapping_sub(ci, 1))
           ELSE UNCHANGED <<last_log, commit_index_tx>>
        /\ UNCHANGED <<uncommitted_index, term, events>>

(***************************************************************************)
(* The cluster task.  A follower acknowledges only entries the leader has  *)
(* sent it, so a reply carries LogIndex::MAX (nothing yet) or an index up  *)
(* to the leader's uncommitted index; replies may be stale or reordered.   *)
(***************************************************************************)
ReplyIndexes ==
    {LogIndexMAX} \cup
    {i \in RealIndexes : uncommitted_index # LogIndexMAX /\ i <= uncommitted_index}

PeerReply ==
    /\ ~commit_index_tx.closed
    /\ \E p \in PeerIds, i \in ReplyIndexes : advance_commit_index(p, i)
    /\ UNCHANGED waitVars
    /\ UNCHANGED nonRaftVars

\* Event::AdvanceUncommittedIndex, handled by the cluster task: the leader's
\* uncommitted index moves forward only.
HandleAdvanceUncommittedIndex ==
    /\ ~commit_index_tx.closed
    /\ events # <<>>
    /\ LET index == Head(events)
       IN  uncommitted_index' =
               IF index > uncommitted_index \/ uncommitted_index = LogIndexMAX
               THEN index ELSE uncommitted_index
    /\ events' = Tail(events)
    /\ UNCHANGED <<peers, last_log, term, commit_index_tx, waitVars>>
    /\ UNCHANGED nonRaftVars

\* A local write whose request does not wait (or another request's waiter)
\* submits its index to the cluster task.
SubmitUncommitted ==
    /\ ~commit_index_tx.closed
    /\ Len(events) < EventCap
    /\ \E i \in RealIndexes : events' = Append(events, i)
    /\ UNCHANGED <<peers, uncommitted_index, last_log, term, commit_index_tx, waitVars>>
    /\ UNCHANGED nonRaftVars

\* The cluster task ends: the watch sender and the event receiver are dropped.
ClusterShutdown ==
    /\ ~commit_index_tx.closed
    /\ commit_index_tx' = [commit_index_tx EXCEPT !.closed = TRUE]
    /\ UNCHANGED <<peers, uncommitted_index, last_log, term, events, waitVars>>
    /\ UNCHANGED nonRaftVars

(***************************************************************************)
(* JMAPServer::commit_index(index).                                        *)
(***************************************************************************)
WaiterIdle ==
    [pc |-> "idle", index |-> 0, rx_version |-> 0, wait_start |-> 0,
     deadline |-> 0, observed |-> <<>>, result |-> FALSE, branch |-> "none",
     sent_version |-> 0]

\* line 112: the success test on the value borrowed from the watch channel.
CommittedAnyChange(commit_index, index) == TRUE

Committed(commit_index, index) == commit_index >= index

\* lines 93-94 and 148-155: without a cluster, or when not leading, false.
CommitIndexCall ==
    /\ waiter.pc = "idle"
    /\ \E index \in RealIndexes :
        waiter' =
            IF ~clustered
            THEN [WaiterIdle EXCEPT !.pc = "done", !.index = index,
                                    !.branch = "not_clustered"]
            ELSE IF ~is_leader
            THEN [WaiterIdle EXCEPT !.pc = "done", !.index = index,
                                    !.branch = "not_leader"]
            ELSE [WaiterIdle EXCEPT !.pc = "send", !.index = index]
    /\ UNCHANGED <<clusterVars, clustered, is_leader, now>>
    /\ UNCHANGED nonRaftVars

\* lines 95-106: the event is sent; the receiver is a clone of the server's
\* receiver, which has never awaited the channel and so still holds the
\* version the channel was created with; the first timeout runs from now.
\* sent_version is history only: the version the channel had when the event
\* was sent, which the code never reads.
SendOk ==
    /\ waiter.pc = "send"
    /\ ~commit_index_tx.closed
    /\ Len(events) < EventCap
    /\ events' = Append(events, waiter.index)
    /\ waiter' = [waiter EXCEPT !.pc = "wait", !.rx_version = 0,
                                !.sent_version = commit_index_tx.version,
                                !.wait_start = now,
                                !.deadline = now + CommitTimeout]
    /\ UNCHANGED <<peers, uncommitted_index, last_log, term, commit_index_tx,
                   clustered, is_leader, now>>
    /\ UNCHANGED nonRaftVars

\* lines 142-147: the cluster task is gone, send() fails.
SendFailed ==
    /\ waiter.pc = "send"
    /\ commit_index_tx.closed
    /\ waiter' = [waiter EXCEPT !.pc = "done", !.result = FALSE,
                                !.branch = "send_failed"]
    /\ UNCHANGED <<clusterVars, clustered, is_leader, now>>
    /\ UNCHANGED nonRaftVars

\* lines 109-125, Ok(Ok(())): changed() completes because the channel holds a
\* version the receiver has not seen (checked before closure and before the
\* timer, as tokio's watch and timeout do).
PollChanged ==
    /\ waiter.pc = "wait"
    /\ waiter.rx_version # commit_index_tx.version
    /\ LET commit_index == commit_index_tx.value
           wait_elapsed == now - waiter.wait_start
           seen == [waiter EXCEPT !.rx_version = commit_index_tx.version,
                                  !.observed = <<commit_index>>]
       IN  waiter' =
               IF Committed(commit_index, waiter.index)
               THEN [seen EXCEPT !.pc = "done", !.result = TRUE,
                                 !.branch = "committed"]
               ELSE IF wait_elapsed >= CommitTimeout
               THEN [seen EXCEPT !.pc = "done", !.result = FALSE,
                                 !.branch = "elapsed"]
               ELSE [seen EXCEPT !.deadline = now + (CommitTimeout - wait_elapsed)]
    /\ UNCHANGED <<clusterVars, clustered, is_leader, now>>
    /\ UNCHANGED nonRaftVars

\* lines 126-132, Ok(Err(_)): nothing unseen and the sender is gone.
PollClosed ==
    /\ waiter.pc = "wait"
    /\ waiter.rx_version = commit_index_tx.version
    /\ commit_index_tx.closed
    /\ waiter' = [waiter EXCEPT !.pc = "done", !.result = FALSE,
                                !.branch = "channel_closed"]
    /\ UNCHANGED <<clusterVars, clustered, is_leader, now>>
    /\ UNCHANGED nonRaftVars

\* The timer wins over an unseen version.
PollTimeoutTimerFirst ==
    /\ waiter.pc = "wait"
    /\ ~commit_index_tx.closed
    /\ now >= waiter.deadline
    /\ waiter' = [waiter EXCEPT !.pc = "done", !.result = FALSE,
                                !.branch = "timeout"]
    /\ UNCHANGED <<clusterVars, clustered, is_leader, now>>
    /\ UNCHANGED nonRaftVars

\* lines 133-139, Err(_): nothing unseen and the timer has fired.
PollTimeout ==
    /\ waiter.pc = "wait"
    /\ waiter.rx_version = commit_index_tx.version
    /\ ~commit_index_tx.closed
    /\ now >= waiter.deadline
    /\ waiter' = [waiter EXCEPT !.pc = "done", !.result = FALSE,
                                !.branch = "timeout"]
    /\ UNCHANGED <<clusterVars, clustered, is_leader, now>>
    /\ UNCHANGED nonRaftVars

\* The caller takes the result; the server is ready for the next request.
CommitIndexReturn ==
    /\ waiter.pc = "done"
    /\ waiter' = WaiterIdle
    /\ UNCHANGED <<clusterVars, clustered, is_leader, now>>
    /\ UNCHANGED nonRaftVars

Tick ==
    /\ now < MaxTime
    /\ now' = now + 1
    /\ UNCHANGED <<clusterVars, clustered, is_leader, waiter>>
    /\ UNCHANGED nonRaftVars

(***************************************************************************)
(* Initial and idle values of the two subsystems.                          *)
(***************************************************************************)
ChannelInit == [value |-> LogIndexMAX, version |-> 0, closed |-> FALSE]

ClusterInit(shards) ==
    /\ peers \in {[p \in PeerIds |-> [in_shard |-> f[p], commit_index |-> LogIndexMAX]] :
                    f \in shards}
    /\ uncommitted_index = LogIndexMAX
    /\ last_log = [index |-> LogIndexMAX, term |-> 0]
    /\ term = 1
    /\ commit_index_tx = ChannelInit
    /\ events = <<>>

WaitIdle ==
    /\ clustered = TRUE
    /\ is_leader = TRUE
    /\ waiter = WaiterIdle
    /\ now = 0

AllShards == [PeerIds -> BOOLEAN]

\* The three-node shard of the quorum scenario: the leader and peers 1, 2.
ThreeNodeShard == {[p \in PeerIds |-> p <= 2]}

(***************************************************************************)
(* The store of one account as mail_set sees it.  The Mail documents carry *)
(* mailbox and keyword tags; the set of mailboxes is fixed; every write    *)
(* batch takes the next change id and stamps the collections it logs to.   *)
(***************************************************************************)
DocIds == 0 .. MaxDocs - 1
MailboxIds == 0 .. NMailboxes - 1
\* The ids a request may name: the live mailboxes and one id that is none.
MailboxRefs == 0 .. NMailboxes
SEEN == "$seen"
Keywords == {SEEN, "$flagged"}

NoMessage == [live |-> FALSE, mailboxes |-> {}, keywords |-> {}]

(***************************************************************************)
(* JMAPIdSerialize (jmap_store/src/lib.rs).  A string is the sequence of   *)
(* its characters.  A JMAPId is an unsigned integer of IdHexDigits hex     *)
(* digits (sixteen in the build).  from_jmap_string is u64::from_str_radix *)
(* on what follows the leading 'i': an optional '+', then digits of either *)
(* case, any number of them while the value fits; to_jmap_string writes    *)
(* lowercase digits, at least two ("i{:02x}").  An Option is <<>> for None *)
(* and <<v>> for Some(v).                                                  *)
(***************************************************************************)
LowerHex == <<"0", "1", "2", "3", "4", "5", "6", "7", "8", "9",
              "a", "b", "c", "d", "e", "f">>
UpperHex == <<"A", "B", "C", "D", "E", "F">>
JMAPIdMAX == 16 ^ IdHexDigits - 1

\* char::to_digit(16): the digit's value, -1 for None.
to_digit(c) ==
    IF \E i \in DOMAIN LowerHex : LowerHex[i] = c
    THEN (CHOOSE i \in DOMAIN LowerHex : LowerHex[i] = c) - 1
    ELSE IF \E i \in DOMAIN UpperHex : UpperHex[i] = c
    THEN (CHOOSE i \in DOMAIN UpperHex : UpperHex[i] = c) + 9
    ELSE -1

\* The digit loop of from_str_radix: None at a character that is no digit
\* and when the value overflows.
RECURSIVE parse_digits(_, _)
parse_digits(digits, result) ==
    IF digits = <<>> THEN <<result>>
    ELSE LET x == to_digit(Head(digits))
         IN  IF x = -1 \/ result * 16 + x > JMAPIdMAX THEN <<>>
             ELSE parse_digits(Tail(digits), result * 16 + x)

\* from_str_radix(src, 16) of an unsigned type, with .ok() applied.
from_str_radix(src) ==
    IF src = <<>> THEN <<>>
    ELSE IF Len(src) = 1 /\ src[1] \in {"+", "-"} THEN <<>>
    ELSE IF src[1] = "+" THEN parse_digits(Tail(src), 0)
    ELSE parse_digits(src, 0)

\* lines 48-57
from_jmap_string(id) ==
    IF id # <<>> /\ id[1] = "i" THEN from_str_radix(Tail(id)) ELSE <<>>

\* {:x}: the lowercase digits of the value, no leading zero.
RECURSIVE LowerHexOf(_)
LowerHexOf(id) ==
    IF id < 16 THEN <<LowerHex[id + 1]>>
    ELSE LowerHexOf(id \div 16) \o <<LowerHex[(id % 16) + 1]>>

\* The digits are written without the leading 'i'.
to_jmap_string_bare(id) ==
    (IF id < 16 THEN <<"0">> ELSE <<>>) \o LowerHexOf(id)

\* lines 59-61: format!("i{:02x}", self)
to_jmap_string(id) ==
    <<"i">> \o (IF id < 16 THEN <<"0">> ELSE <<>>) \o LowerHexOf(id)

\* The id strings a request may hold: 'i' and one or two digits, naming a
\* document slot; and the strings the server itself hands out.
IdStrings ==
    {id \in {<<"i">> \o [k \in DOMAIN ds |-> LowerHex[ds[k] + 1]] :
                ds \in [{1} -> DocIds] \cup [{1, 2} -> DocIds]} :
        /\ from_jmap_string(id) # <<>>
        /\ from_jmap_string(id)[1] \in DocIds}
CanonicalIds == {to_jmap_string(d) : d \in DocIds}

\* get_state(account, collection): the change id of the collection's last
\* log entry.
get_state(collection) == change_ids[collection]

\* get_document_ids(account, Collection::Mail)
get_document_ids == {d \in DocIds : messages[d].live}

\* WriteBatch, as mail_set fills it (lines 509-518 and 539-540).
EmptyBatch ==
    [updates |-> <<>>, deletes |-> {}, log_update |-> {}, log_delete |-> {},
     child_updates |-> {}]

\* WriteBatch::is_empty (line 565)
BatchIsEmpty(b) ==
    /\ b.updates = <<>> /\ b.deletes = {}
    /\ b.log_update = {} /\ b.log_delete = {} /\ b.child_updates = {}

ApplyUpdate(msg, u) ==
    [msg EXCEPT !.mailboxes = (@ \ u.untag_mb) \cup u.tag_mb,
                !.keywords = (@ \ u.untag_kw) \cup u.tag_kw]

\* The documents of the batch that address d, applied in batch order.
RECURSIVE ApplyUpdates(_, _, _)
ApplyUpdates(msg, d, updates) ==
    IF updates = <<>> THEN msg
    ELSE ApplyUpdates(IF Head(updates).id = d THEN ApplyUpdate(msg, Head(updates))
                      ELSE msg,
                      d, Tail(updates))

\* JMAPStore::write(batch): one atomic KV batch holding the document
\* mutations and the change-log entries, under the next change id.
StoreWrite(b) ==
    LET id == change_ids.Mail + 1
    IN  /\ messages' =
            [d \in DocIds |->
                IF d \in b.deletes THEN NoMessage
                ELSE IF messages[d].live
                THEN ApplyUpdates(messages[d], d, b.updates)
                ELSE messages[d]]
        /\ change_ids' =
            [Mail |-> IF b.log_update \cup b.log_delete # {} THEN id
                      ELSE change_ids.Mail]

\* mail_import_blob: parses the blob and writes the new message, with its
\* tags and its Insert log entry, in a batch of its own.
mail_import_blob(mailbox_ids, keywords) ==
    LET id == change_ids.Mail + 1
        document_id == CHOOSE d \in DocIds :
                          /\ ~messages[d].live
                          /\ \A e \in DocIds : ~messages[e].live => d <= e
    IN  /\ messages' = [messages EXCEPT ![document_id] =
                          [live |-> TRUE, mailboxes |-> mailbox_ids,
                           keywords |-> keywords]]
        /\ change_ids' = [change_ids EXCEPT !.Mail = id]

\* The store can take one more write (a bound of the model).
CanWrite == change_ids.Mail < MaxChangeId
\* A call begins while the store has room for every write it can make.
CanBegin == change_ids.Mail + MaxCreates + 1 <= MaxChangeId
CanAllocate == \E d \in DocIds : ~messages[d].live

(***************************************************************************)
(* A patch of an update: the properties of the JSON object, in the order   *)
(* the HashMap yields them.  An entry is a bare property with an object    *)
(* value (kws / mbs are the keys whose value is true), a "field/key" path  *)
(* with a boolean or null value, or a property that is not supported.      *)
(***************************************************************************)
KeywordsObject(K) ==
    [field |-> "keywords", path |-> FALSE, kws |-> K, mbs |-> {}, value |-> TRUE]
KeywordsPath(k, v) ==
    [field |-> "keywords", path |-> TRUE, kws |-> {k}, mbs |-> {}, value |-> v]
MailboxIdsObject(M) ==
    [field |-> "mailboxIds", path |-> FALSE, kws |-> {}, mbs |-> M, value |-> TRUE]
MailboxIdsPath(m, v) ==
    [field |-> "mailboxIds", path |-> TRUE, kws |-> {}, mbs |-> {m}, value |-> v]
Unsupported ==
    [field |-> "subject", path |-> FALSE, kws |-> {}, mbs |-> {}, value |-> TRUE]

ObjectOps ==
    {KeywordsObject(K) : K \in SUBSET Keywords}
    \cup {MailboxIdsObject(M) : M \in SUBSET MailboxRefs}
PathOps ==
    {KeywordsPath(k, v) : k \in Keywords, v \in BOOLEAN}
    \cup {MailboxIdsPath(m, v) : m \in MailboxRefs, v \in BOOLEAN}
Ops == ObjectOps \cup PathOps \cup {Unsupported}

\* A patch is one property, or a full replacement (of at most one key)
\* together with a path of the same property, in either order.
ObjectWithPath ==
    {oq \in ObjectOps \X PathOps :
        /\ oq[1].field = oq[2].field
        /\ Cardinality(oq[1].kws \cup oq[1].mbs) <= 1}
Patches ==
    {<<o>> : o \in Ops}
    \cup {<<oq[1], oq[2]>> : oq \in ObjectWithPath}
    \cup {<<oq[2], oq[1]>> : oq \in ObjectWithPath}

\* The patches that address each property in one way: one property; two
\* paths of one property with different keys; or one entry for keywords
\* and one for mailboxIds.
PlainPatches ==
    {<<o>> : o \in Ops}
    \cup {<<oq[1], oq[2]>> :
            oq \in {pq \in PathOps \X PathOps :
                        /\ pq[1].field = pq[2].field
                        /\ pq[1].kws \cup pq[1].mbs # pq[2].kws \cup pq[2].mbs}}
    \cup {<<oq[1], oq[2]>> :
            oq \in {pq \in (ObjectOps \cup PathOps) \X (ObjectOps \cup PathOps) :
                        pq[1].field = "keywords" /\ pq[2].field = "mailboxIds"}}

\* keyword_op_list / mailbox_op_list: a HashMap from tag to bool.
EmptyOpList == [t |-> {}, f |-> {}]
OpInsert(list, k, v) ==
    IF v THEN [t |-> list.t \cup {k}, f |-> list.f \ {k}]
    ELSE [t |-> list.t \ {k}, f |-> list.f \cup {k}]
OpInsertAll(list, ks) == [t |-> list.t \cup ks, f |-> list.f \ ks]
OpGet(list, k, default) ==
    IF k \in list.t THEN TRUE ELSE IF k \in list.f THEN FALSE ELSE default
OpIsEmpty(list) == list.t = {} /\ list.f = {}

ParsedInit ==
    [err |-> FALSE, keyword_op_list |-> EmptyOpList, keyword_op_clear_all |-> FALSE,
     mailbox_op_list |-> EmptyOpList, mailbox_op_clear_all |-> FALSE]

\* lines 169-343, one property of the patch.
ParseOp(acc, o) ==
    IF acc.err THEN acc
    ELSE IF o.field = "keywords" /\ ~o.path
    THEN [acc EXCEPT !.keyword_op_list = OpInsertAll(@, o.kws),
                     !.keyword_op_clear_all = TRUE]
    ELSE IF o.field = "mailboxIds" /\ ~o.path
    THEN [acc EXCEPT !.mailbox_op_list = OpInsertAll(@, o.mbs),
                     !.mailbox_op_clear_all = TRUE]
    ELSE IF o.field = "keywords" /\ o.path
    THEN [acc EXCEPT !.keyword_op_list =
                        OpInsert(@, CHOOSE k \in o.kws : TRUE, o.value)]
    ELSE IF o.field = "mailboxIds" /\ o.path
    THEN [acc EXCEPT !.mailbox_op_list =
                        OpInsert(@, CHOOSE m \in o.mbs : TRUE, o.value)]
    ELSE [acc EXCEPT !.err = TRUE]

RECURSIVE ParsePatch(_, _)
ParsePatch(acc, patch) ==
    IF patch = <<>> THEN acc
    ELSE ParsePatch(ParseOp(acc, Head(patch)), Tail(patch))

\* The mailbox tags of the update when a full replacement does not clear
\* the mailboxes its map leaves out.
MailboxPhaseNoClear(current_mailboxes, list, clear_all) ==
    LET untag == {m \in current_mailboxes : ~OpGet(list, m, TRUE)}
        kept == \E m \in current_mailboxes : OpGet(list, m, TRUE)
        missing == \E m \in list.t : m \notin MailboxIds
        tag == {m \in list.t : m \notin current_mailboxes}
        has_mailboxes == kept \/ list.t # {}
    IN  [err |-> missing \/ ~has_mailboxes, tag |-> tag, untag |-> untag]

\* lines 345-431: the mailbox tags of the update.
MailboxPhase(current_mailboxes, list, clear_all) ==
    LET untag == IF clear_all
                 THEN {m \in current_mailboxes : ~OpGet(list, m, FALSE)}
                 ELSE {m \in current_mailboxes : ~OpGet(list, m, TRUE)}
        kept == ~clear_all /\ \E m \in current_mailboxes : OpGet(list, m, TRUE)
        missing == \E m \in list.t : m \notin MailboxIds
        tag == {m \in list.t : m \notin current_mailboxes}
        has_mailboxes == kept \/ list.t # {}
    IN  [err |-> missing \/ ~has_mailboxes, tag |-> tag, untag |-> untag]

\* lines 433-507: the keyword tags of the update.
KeywordPhaseSeenIgnored(current_keywords, list, clear_all) ==
    LET untag == IF clear_all
                 THEN {k \in current_keywords : ~OpGet(list, k, FALSE)}
                 ELSE {k \in current_keywords : ~OpGet(list, k, TRUE)}
        tag == {k \in list.t : k \notin current_keywords}
    IN  [tag |-> tag, untag |-> untag, unread_changed |-> FALSE]

\* The keyword tags of the update when naming $seen marks the mailboxes
\* as changed, whether or not the tag changes.
KeywordPhaseSeenNamed(current_keywords, list, clear_all) ==
    LET untag == IF clear_all
                 THEN {k \in current_keywords : ~OpGet(list, k, FALSE)}
                 ELSE {k \in current_keywords : ~OpGet(list, k, TRUE)}
        tag == {k \in list.t : k \notin current_keywords}
    IN  [tag |-> tag, untag |-> untag,
         unread_changed |-> SEEN \in (list.t \cup list.f)]

KeywordPhase(current_keywords, list, clear_all) ==
    LET untag == IF clear_all
                 THEN {k \in current_keywords : ~OpGet(list, k, FALSE)}
                 ELSE {k \in current_keywords : ~OpGet(list, k, TRUE)}
        tag == {k \in list.t : k \notin current_keywords}
    IN  [tag |-> tag, untag |-> untag, unread_changed |-> SEEN \in (tag \cup untag)]

NoPhase == [err |-> FALSE, tag |-> {}, untag |-> {}, unread_changed |-> FALSE]

\* lines 162-528 for one live target that is not being destroyed: the error
\* of the update, or its document and the mailboxes it marks as changed.
\* InvalidProperties leaves the loop body before anything is logged;
\* InvalidPatch is found at line 516, after the changed mailboxes were
\* logged in lines 509-514.
UpdateOne(document_id, patch) ==
    LET parsed == ParsePatch(ParsedInit, patch)
        mb == IF ~OpIsEmpty(parsed.mailbox_op_list) \/ parsed.mailbox_op_clear_all
              THEN MailboxPhase(messages[document_id].mailboxes,
                                parsed.mailbox_op_list, parsed.mailbox_op_clear_all)
              ELSE NoPhase
        kw == IF ~OpIsEmpty(parsed.keyword_op_list) \/ parsed.keyword_op_clear_all
              THEN KeywordPhase(messages[document_id].keywords,
                                parsed.keyword_op_list, parsed.keyword_op_clear_all)
              ELSE NoPhase
        changed_mailboxes ==
            mb.tag \cup mb.untag
            \cup (IF kw.unread_changed THEN messages[document_id].mailboxes ELSE {})
        document == [id |-> document_id, tag_mb |-> mb.tag, untag_mb |-> mb.untag,
                     tag_kw |-> kw.tag, untag_kw |-> kw.untag]
        is_empty == mb.tag \cup mb.untag = {} /\ kw.tag \cup kw.untag = {}
    IN  IF parsed.err \/ mb.err
        THEN [error |-> "InvalidProperties", document |-> document,
              changed_mailboxes |-> {}]
        ELSE IF is_empty
        THEN [error |-> "InvalidPatch", document |-> document,
              changed_mailboxes |-> changed_mailboxes]
        ELSE [error |-> "", document |-> document,
              changed_mailboxes |-> changed_mailboxes]

\* build_message, lines 609-657 and 756-761: a create names the mailboxes
\* and keywords whose value is true, the mailboxes by id (mailboxes) or by
\* "#" and a creation id (refs); a mailbox that does not exist, a reference
\* that does not resolve, or no mailbox at all, is InvalidProperties.
LocalIds == {"m1", "e1"}
OneLocalId == {"e1"}

CreateItems(local_ids) ==
    [mailboxes : SUBSET MailboxRefs, keywords : SUBSET Keywords,
     refs : SUBSET local_ids]

\* JMAPId::from_jmap_ref("#" + id_ref, created_ids): the id of the entry of
\* the call's created map, <<>> when there is none.
from_jmap_ref(id_ref, created_ids) ==
    IF \E e \in created_ids : e[1] = id_ref
    THEN <<(CHOOSE e \in created_ids : e[1] = id_ref)[2]>>
    ELSE <<>>

\* The vector mailbox_ids of build_message (lines 616-638).
mailbox_ids_of(item, created_ids) ==
    item.mailboxes
    \cup {from_jmap_ref(r, created_ids)[1] :
            r \in {x \in item.refs : from_jmap_ref(x, created_ids) # <<>>}}

build_message_ok(item, created_ids) ==
    /\ \A r \in item.refs : from_jmap_ref(r, created_ids) # <<>>
    /\ mailbox_ids_of(item, created_ids) \subseteq MailboxIds
    /\ mailbox_ids_of(item, created_ids) # {}

(***************************************************************************)
(* JMAPMailSet::mail_set.  A call is a sequence of steps; the reads and    *)
(* writes of the store are its points of interleaving with other calls.    *)
(* The parts of the request are drawn at the step that consumes them.      *)
(***************************************************************************)
CallIdle ==
    [pc |-> "idle", if_in_state |-> <<>>, old_state |-> 0, new_state |-> 0,
     document_ids |-> {}, ncreate |-> 0, created |-> {}, destroy |-> {},
     update |-> {}, patches |-> {}, not_updated |-> {}, changes |-> EmptyBatch,
     result |-> "none", writes |-> 0]

StateTokens == 0 .. MaxChangeId

\* line 80: old_state != if_in_state
StateMatchesAlways(old_state, if_in_state) == TRUE

StateMatches(old_state, if_in_state) == old_state = if_in_state

\* lines 78-84
MailSetBegin(c) ==
    /\ calls[c].pc = "idle"
    /\ CanBegin
    /\ \E if_in_state \in {<<>>} \cup {<<t>> : t \in StateTokens} :
        LET old_state == get_state("Mail")
        IN  calls' = [calls EXCEPT ![c] =
                IF if_in_state # <<>> /\ ~StateMatches(old_state, if_in_state[1])
                THEN [CallIdle EXCEPT !.pc = "done", !.if_in_state = if_in_state,
                                      !.old_state = old_state,
                                      !.result = "StateMismatch"]
                ELSE [CallIdle EXCEPT !.pc = "ids", !.if_in_state = if_in_state,
                                      !.old_state = old_state]]
    /\ UNCHANGED <<storeVars, nonMailVars>>

\* lines 85-88
ReadDocumentIds(c) ==
    /\ calls[c].pc = "ids"
    /\ calls' = [calls EXCEPT ![c].pc = "create",
                              ![c].document_ids = get_document_ids]
    /\ UNCHANGED <<storeVars, nonMailVars>>

\* lines 95-118: the create is built and imported; the import commits.  The
\* request has at most n creates, under creation ids of local_ids.
CreateImported(c, n, local_ids) ==
    /\ calls[c].pc = "create"
    /\ calls[c].ncreate < n
    /\ CanWrite /\ CanAllocate
    /\ \E item \in CreateItems(local_ids),
          create_id \in local_ids \ {e[1] : e \in calls[c].created} :
        /\ build_message_ok(item, calls[c].created)
        /\ mail_import_blob(mailbox_ids_of(item, calls[c].created), item.keywords)
        /\ calls' = [calls EXCEPT
                ![c].ncreate = @ + 1,
                ![c].created = @ \cup {<<create_id, d>> :
                                        d \in get_document_ids' \ get_document_ids},
                ![c].writes = @ + 1]
    /\ UNCHANGED nonMailVars

\* lines 119-121: build_message rejects the create.
CreateRejected(c, n, local_ids) ==
    /\ calls[c].pc = "create"
    /\ calls[c].ncreate < n
    /\ \E item \in CreateItems(local_ids) : ~build_message_ok(item, calls[c].created)
    /\ calls' = [calls EXCEPT ![c].ncreate = @ + 1]
    /\ UNCHANGED <<storeVars, nonMailVars>>

\* line 116: mail_import_blob(..)? returns a store error, mail_set returns it.
CreateImportFailed(c) ==
    /\ calls[c].pc = "create"
    /\ calls' = [calls EXCEPT ![c].pc = "done", ![c].result = "InternalError"]
    /\ UNCHANGED <<storeVars, nonMailVars>>

\* line 123 -> 128: no create is left; the request's destroy list is fixed:
\* at most MaxDestroy of the id strings `ids`.
EndCreates(c, ids) ==
    /\ calls[c].pc = "create"
    /\ \E destroy \in SUBSET ids :
        /\ Cardinality(destroy) <= MaxDestroy
        /\ calls' = [calls EXCEPT ![c].pc = "update", ![c].destroy = destroy]
    /\ UNCHANGED <<storeVars, nonMailVars>>

\* lines 151-161: the update's key is looked up in request.destroy as a
\* string.
WillDestroy(destroy, jmap_id_str) == \E x \in destroy : x = jmap_id_str

\* lines 128-529: one entry of request.update, whose key is one of the id
\* strings `ids` that no earlier entry had and whose value is one of
\* `patches`.  With `record` the call keeps the entry as it was read
\* (request.update so far), for the properties that speak of the patch.
UpdateEntry(c, ids, patches, record) ==
    /\ calls[c].pc = "update"
    /\ Cardinality(calls[c].update) < MaxUpdates
    /\ \E jmap_id_str \in ids \ calls[c].update, patch \in patches :
        LET call == calls[c]
            document_id == from_jmap_string(jmap_id_str)[1]
            u == UpdateOne(document_id, patch)
            error == IF document_id \notin call.document_ids THEN "NotFound"
                     ELSE IF WillDestroy(call.destroy, jmap_id_str)
                     THEN "WillDestroy"
                     ELSE u.error
            read == IF record THEN call.patches \cup {<<jmap_id_str, patch>>}
                    ELSE call.patches
        IN  calls' = [calls EXCEPT ![c] =
                IF error # ""
                THEN [call EXCEPT
                        !.update = @ \cup {jmap_id_str},
                        !.patches = read,
                        !.not_updated = @ \cup {<<jmap_id_str, error>>},
                        !.changes = [@ EXCEPT
                            !.child_updates =
                                IF error = "InvalidPatch"
                                THEN @ \cup u.changed_mailboxes ELSE @]]
                ELSE [call EXCEPT
                        !.update = @ \cup {jmap_id_str},
                        !.patches = read,
                        !.changes = [@ EXCEPT
                            !.updates = Append(@, u.document),
                            !.log_update = @ \cup {document_id},
                            !.child_updates = @ \cup u.changed_mailboxes]]]
    /\ UNCHANGED <<storeVars, nonMailVars>>

UpdateStep(c, ids) == UpdateEntry(c, ids, Patches, FALSE)

\* lines 531-561: the destroy list is added to the batch.
DestroyAll(call) ==
    LET found == {from_jmap_string(x)[1] : x \in call.destroy} \cap call.document_ids
    IN  [call.changes EXCEPT !.deletes = found, !.log_delete = found]

\* lines 565-566: the batch is written.
WriteOk(c) ==
    /\ calls[c].pc = "update"
    /\ ~BatchIsEmpty(DestroyAll(calls[c]))
    /\ CanWrite
    /\ StoreWrite(DestroyAll(calls[c]))
    /\ calls' = [calls EXCEPT ![c].pc = "reread",
                              ![c].changes = DestroyAll(calls[c]),
                              ![c].writes = @ + 1]
    /\ UNCHANGED nonMailVars

\* line 566: self.write(changes)? returns a store error.
WriteFailed(c) ==
    /\ calls[c].pc = "update"
    /\ ~BatchIsEmpty(DestroyAll(calls[c]))
    /\ calls' = [calls EXCEPT ![c].pc = "done", ![c].result = "InternalError",
                              ![c].changes = DestroyAll(calls[c])]
    /\ UNCHANGED <<storeVars, nonMailVars>>

\* lines 568-570: nothing in the batch, newState is old_state.
NoWrite(c) ==
    /\ calls[c].pc = "update"
    /\ BatchIsEmpty(DestroyAll(calls[c]))
    /\ calls' = [calls EXCEPT ![c].pc = "done", ![c].result = "ok",
                              ![c].new_state = calls[c].old_state]
    /\ UNCHANGED <<storeVars, nonMailVars>>

\* line 567: newState is read back after the write.
RereadState(c) ==
    /\ calls[c].pc = "reread"
    /\ calls' = [calls EXCEPT ![c].pc = "done", ![c].result = "ok",
                              ![c].new_state = get_state("Mail")]
    /\ UNCHANGED <<storeVars, nonMailVars>>

\* The response is taken; the slot serves the next request.
MailSetReturn(c) ==
    /\ calls[c].pc = "done"
    /\ calls' = [calls EXCEPT ![c] = CallIdle]
    /\ UNCHANGED <<storeVars, nonMailVars>>

StoreInit ==
    /\ messages = [d \in DocIds |-> NoMessage]
    /\ change_ids = [Mail |-> 0]

MailIdle == StoreInit /\ calls = <<CallIdle>>

(***************************************************************************)
(* The Logs column family: change keys (account, collection, change id)    *)
(* and Raft keys (index).  A write batch of one account takes the next     *)
(* Raft index as its change id and logs one entry per collection it        *)
(* touches.  JMAP ids are per (account, collection) pair.                  *)
(***************************************************************************)
Accounts == 1 .. NAccounts
Collections == <<"Mail", "Mailbox">>
JMAPIds == 1 .. MaxIds
LogIds == 1 .. MaxLogIndex

\* The change keys in key order: account, then collection.
RECURSIVE PairsFrom(_)
PairsFrom(a) ==
    IF a > NAccounts THEN <<>>
    ELSE <<<<a, Collections[1]>>, <<a, Collections[2]>>>> \o PairsFrom(a + 1)
KeyOrder == PairsFrom(1)
Pairs == {KeyOrder[i] : i \in DOMAIN KeyOrder}

NoValue ==
    [kind |-> "none", inserts |-> {}, updates |-> {}, deletes |-> {}, ids |-> {}]
\* batch::Change::ENTRY.  updates stands for the updates and the child
\* updates of the entry: both are lists of ids that no reader of this
\* module interprets differently.
EntryValue(ins, upd, del) ==
    [kind |-> "entry", inserts |-> ins, updates |-> upd, deletes |-> del,
     ids |-> {}]
\* batch::Change::SNAPSHOT
SnapshotValue(ids) ==
    [kind |-> "snapshot", inserts |-> {}, updates |-> {}, deletes |-> {},
     ids |-> ids]

NoRaft == [kind |-> "none", term |-> <<>>, changed |-> {}]

\* The last Raft index written.
LastIndex ==
    IF \E i \in LogIds : raft[i].kind # "none"
    THEN CHOOSE i \in LogIds :
            raft[i].kind # "none" /\ \A j \in LogIds : raft[j].kind # "none" => j <= i
    ELSE 0

\* The ids of a list in the order they were pushed (ascending here).
RECURSIVE SetToSeq(_)
SetToSeq(S) ==
    IF S = {} THEN <<>>
    ELSE LET x == CHOOSE y \in S : \A z \in S : y <= z
         IN  <<x>> \o SetToSeq(S \ {x})

(***************************************************************************)
(* compact.rs, deserialize_inserts: the fold of one value into             *)
(* inserted_ids.  The debug_assert of a Snapshot fails when the set is not *)
(* empty; a release build overwrites the set.                              *)
(***************************************************************************)
deserialize_inserts(inserted_ids, value) ==
    IF value.kind = "entry"
    THEN (inserted_ids \cup value.inserts) \ value.deletes
    ELSE value.ids

\* The ids a pair's keys mention: none of them is free for a new document.
Mentioned(p) ==
    UNION {logs[p][c].inserts \cup logs[p][c].deletes \cup logs[p][c].ids :
            c \in LogIds}

\* The fold of the keys 1 .. to of a pair, in key order.
RECURSIVE FoldKeys(_, _, _, _)
FoldKeys(l, c, to, inserted_ids) ==
    IF c > to THEN inserted_ids
    ELSE FoldKeys(l, c + 1, to,
                  IF l[c].kind = "none" THEN inserted_ids
                  ELSE deserialize_inserts(inserted_ids, l[c]))

LiveAt(l, to) == FoldKeys(l, 1, to, {})

(***************************************************************************)
(* LogWriter::add_change and LogWriter::serialize, and the write of the    *)
(* batch: the entries of the touched collections and the Raft Item, all    *)
(* under the next index.  An entry inserts ids that no key of the pair     *)
(* mentions, and updates and deletes ids that are live or inserted by it;  *)
(* it is the outcome of at most `actions` add_change calls.                *)
(***************************************************************************)
EntriesFor(p, actions) ==
    LET live == LiveAt(logs[p], MaxLogIndex)
        free == JMAPIds \ Mentioned(p)
        lists == {t \in (SUBSET free) \X (SUBSET (live \cup free))
                                     \X (SUBSET (live \cup free)) :
                    /\ t[2] \subseteq live \cup t[1]
                    /\ t[3] \subseteq live \cup t[1]
                    /\ t[1] \cup t[2] \cup t[3] # {}
                    /\ Cardinality(t[1]) + Cardinality(t[2])
                          + Cardinality(t[3]) <= actions}
    IN  {EntryValue(t[1], t[2], t[3]) : t \in lists}

AppendBatch(actions) ==
    /\ compaction.panic = ""
    /\ changelog = <<>> /\ last_change = <<>>
    /\ LastIndex < MaxLogIndex
    /\ \E a \in {p[1] : p \in DOMAIN logs} :
        \E cols \in SUBSET {p \in DOMAIN logs : p[1] = a} :
            /\ cols # {}
            /\ \E entries \in [cols -> UNION {EntriesFor(p, actions) : p \in cols}] :
                /\ \A p \in cols : entries[p] \in EntriesFor(p, actions)
                /\ logs' = [p \in DOMAIN logs |->
                              IF p \in cols
                              THEN [logs[p] EXCEPT ![LastIndex + 1] = entries[p]]
                              ELSE logs[p]]
                /\ raft' = [raft EXCEPT ![LastIndex + 1] =
                              [kind |-> "item", term |-> <<term>>, changed |-> cols]]
    /\ changelog' = <<>>
    /\ last_change' = <<>>
    /\ compaction' = [compaction EXCEPT !.up_to = <<>>]
    /\ UNCHANGED nonLogVars

(***************************************************************************)
(* changelog.rs: ChangeLog::deserialize and JMAPStore::get_changes.        *)
(***************************************************************************)
Insert(id) == <<"Insert", id>>
Update(id) == <<"Update", id>>
Delete(id) == <<"Delete", id>>

RemoveAt(s, idx) == SubSeq(s, 1, idx - 1) \o SubSeq(s, idx + 1, Len(s))

\* The scan of lines 65-81 and 100-117: the first element that is
\* Insert(id) or Update(id), 0 when there is none.
RECURSIVE FirstMatch(_, _, _)
FirstMatch(changes, id, idx) ==
    IF idx > Len(changes) THEN 0
    ELSE IF changes[idx] = Insert(id) \/ changes[idx] = Update(id) THEN idx
    ELSE FirstMatch(changes, id, idx + 1)

\* lines 51-58
RECURSIVE PushInserts(_, _)
PushInserts(changes, ids) ==
    IF ids = <<>> THEN changes
    ELSE PushInserts(Append(changes, Insert(Head(ids))), Tail(ids))

\* An update that is recorded although the id's Insert is in the list.
UpdateAfterInsertCounted(changes, id) ==
    LET idx == FirstMatch(changes, id, 1)
    IN  IF idx = 0 \/ changes[idx] = Insert(id) THEN Append(changes, Update(id))
        ELSE Append(RemoveAt(changes, idx), Update(id))

\* lines 61-93, one id
UpdateOneId(changes, id) ==
    LET idx == FirstMatch(changes, id, 1)
    IN  IF idx = 0 THEN Append(changes, Update(id))
        ELSE IF changes[idx] = Insert(id) THEN changes
        ELSE Append(RemoveAt(changes, idx), Update(id))

RECURSIVE PushUpdates(_, _)
PushUpdates(changes, ids) ==
    IF ids = <<>> THEN changes
    ELSE PushUpdates(UpdateOneId(changes, Head(ids)), Tail(ids))

\* A delete that keeps the Insert it meets and records the Delete after it.
DeleteKeepsInsert(changes, id) ==
    LET idx == FirstMatch(changes, id, 1)
    IN  IF idx = 0 \/ changes[idx] = Insert(id) THEN Append(changes, Delete(id))
        ELSE Append(RemoveAt(changes, idx), Delete(id))

\* lines 96-122, one id
DeleteOneId(changes, id) ==
    LET idx == FirstMatch(changes, id, 1)
    IN  IF idx = 0 THEN Append(changes, Delete(id))
        ELSE IF changes[idx] = Insert(id) THEN RemoveAt(changes, idx)
        ELSE Append(RemoveAt(changes, idx), Delete(id))

RECURSIVE PushDeletes(_, _)
PushDeletes(changes, ids) ==
    IF ids = <<>> THEN changes
    ELSE PushDeletes(DeleteOneId(changes, Head(ids)), Tail(ids))

\* ChangeLog::deserialize, lines 45-127
deserialize(changes, value) ==
    PushDeletes(
        PushUpdates(PushInserts(changes, SetToSeq(value.inserts)),
                    SetToSeq(value.updates)),
        SetToSeq(value.deletes))

\* get_changes, lines 287-294: the query as it was made (form) and
\* (is_inclusive, from_change_id, to_change_id), which is all the code
\* reads after the match.
All ==
    [form |-> "All", is_inclusive |-> TRUE, from_change_id |-> 0,
     to_change_id |-> 0]
Since(change_id) ==
    [form |-> "Since", is_inclusive |-> FALSE, from_change_id |-> change_id,
     to_change_id |-> 0]
SinceInclusive(change_id) ==
    [form |-> "SinceInclusive", is_inclusive |-> TRUE,
     from_change_id |-> change_id, to_change_id |-> 0]
RangeInclusive(from, to) ==
    [form |-> "RangeInclusive", is_inclusive |-> TRUE, from_change_id |-> from,
     to_change_id |-> to]

Queries ==
    {All}
    \cup {Since(c) : c \in 0 .. MaxLogIndex}
    \cup {SinceInclusive(c) : c \in LogIds}
    \cup {RangeInclusive(c, d) : c \in LogIds, d \in 0 .. MaxLogIndex}

\* A range that starts one change id late.
FromSkipsOne(q, change_id) == change_id > q.from_change_id + 1

\* line 331
FromMatches(q, change_id) ==
    \/ change_id > q.from_change_id
    \/ (q.is_inclusive /\ change_id = q.from_change_id)

\* lines 303-346: the iteration over the keys of the pair, from the key of
\* from_change_id on.
RECURSIVE ReadKeys(_, _, _, _)
ReadKeys(l, q, c, acc) ==
    IF c > MaxLogIndex THEN acc
    ELSE IF l[c].kind = "none" \/ c < q.from_change_id \/ ~FromMatches(q, c)
    THEN ReadKeys(l, q, c + 1, acc)
    ELSE IF q.to_change_id > 0 /\ c > q.to_change_id THEN acc
    ELSE ReadKeys(l, q, c + 1,
            [changes |-> deserialize(acc.changes, l[c]),
             from_change_id |-> IF acc.is_first THEN c ELSE acc.from_change_id,
             to_change_id |-> c,
             is_first |-> FALSE])

\* get_changes, lines 273-357
get_changes(l, q) ==
    LET r == ReadKeys(l, q, 1,
                [changes |-> <<>>, from_change_id |-> 0, to_change_id |-> 0,
                 is_first |-> TRUE])
    IN  IF r.is_first
        THEN [changes |-> <<>>, from_change_id |-> q.from_change_id,
              to_change_id |-> IF q.to_change_id > 0 THEN q.to_change_id
                               ELSE q.from_change_id]
        ELSE [changes |-> r.changes, from_change_id |-> r.from_change_id,
              to_change_id |-> r.to_change_id]

\* A reader asks for the changes of a pair.
GetChanges ==
    /\ LastIndex > 0
    /\ changelog = <<>> /\ last_change = <<>>
    /\ \E p \in DOMAIN logs, q \in Queries :
        /\ q.from_change_id <= LastIndex /\ q.to_change_id <= LastIndex
        /\ changelog' = <<[pair |-> p, query |-> q,
                           reply |-> get_changes(logs[p], q)]>>
    /\ last_change' = <<>>
    /\ UNCHANGED <<logs, raft, compaction, nonLogVars>>

(***************************************************************************)
(* get_last_change_id, lines 243-271.  The backward iterator starts at the *)
(* greatest key of Logs that is not above the key of (account, collection, *)
(* ChangeLogId::MAX).  Change keys are ordered by account, collection and  *)
(* change id, and all have one length.  Inside the if-let of line 251 the  *)
(* name key is the key the iterator returned, so the test of line 257      *)
(* compares that key with its own prefix, and with the length of a change  *)
(* key: it holds for every change key, and fails for a Raft key, which has *)
(* another length.                                                         *)
(***************************************************************************)
\* The position of a pair's keys among the change keys.
KeyPosition(p) == CHOOSE i \in DOMAIN KeyOrder : KeyOrder[i] = p

LastEntry(l) ==
    CHOOSE c \in LogIds : l[c].kind # "none"
                          /\ \A d \in LogIds : l[d].kind # "none" => d <= c

\* <<>> for None, <<change_id>> for Some(change_id).
get_last_change_id(db, p) ==
    LET below == {q \in DOMAIN db :
                    /\ KeyPosition(q) <= KeyPosition(p)
                    /\ \E c \in LogIds : db[q][c].kind # "none"}
    IN  IF below = {} THEN <<>>
        ELSE LET found == CHOOSE q \in below :
                            \A x \in below : KeyPosition(x) <= KeyPosition(q)
             IN  <<LastEntry(db[found])>>

\* A reader asks for the last change id of a pair.
GetLastChangeId ==
    /\ LastIndex > 0
    /\ changelog = <<>> /\ last_change = <<>>
    /\ \E p \in DOMAIN logs :
        last_change' = <<[pair |-> p, reply |-> get_last_change_id(logs, p)]>>
    /\ changelog' = <<>>
    /\ UNCHANGED <<logs, raft, compaction, nonLogVars>>

\* The reader has taken the reply.
ReplyTaken ==
    /\ changelog # <<>> \/ last_change # <<>>
    /\ changelog' = <<>>
    /\ last_change' = <<>>
    /\ UNCHANGED <<logs, raft, compaction, nonLogVars>>

(***************************************************************************)
(* compact.rs: compact_log(up_to).  The iterators read the Logs as they    *)
(* were when the call began; the writes go to db.  A failed debug_assert   *)
(* ends a debug build's call where it stands, with the writes made so far. *)
(* up_to is the caller's: any change id, also one past the head of the     *)
(* log.                                                                    *)
(***************************************************************************)
NoPair == <<0, "None">>

\* serialize_snapshot, lines 196-218, and the write of the batch: the
\* deletes of the pair's older keys and the Snapshot under last_change_id.
serialize_snapshot(db, write_batch, inserted_ids, current, last_change_id) ==
    [db EXCEPT ![current] =
        [c \in LogIds |->
            IF c = last_change_id THEN SnapshotValue(inserted_ids)
            ELSE IF c \in write_batch THEN NoValue
            ELSE db[current][c]]]

\* lines 52-66: the key belongs to another pair than the current one.
SwitchPair(st, p, up_to) ==
    IF p = st.current THEN st
    ELSE IF st.write_batch # {}
    THEN [st EXCEPT !.db = serialize_snapshot(st.db, st.write_batch,
                                              st.inserted_ids, st.current, up_to),
                    !.inserted_ids = {},
                    !.write_batch = {},
                    !.current = p]
    ELSE [st EXCEPT !.current = p]

\* lines 32-90 for one change key, without the `continue` of line 76.
ChangeKeyNoSkip(st0, p, change_id, up_to) ==
    LET st == SwitchPair(st0, p, up_to)
        value == logs[p][change_id]
        marked == IF change_id # up_to
                  THEN [st EXCEPT !.write_batch = @ \cup {change_id}]
                  ELSE [st EXCEPT !.has_changes = TRUE]
    IN  IF st0.panic # "" THEN st0
        ELSE IF value.kind = "snapshot" /\ compaction.debug
                /\ marked.inserted_ids # {}
        THEN [marked EXCEPT !.panic = "inserted_ids.is_empty()"]
        ELSE [marked EXCEPT !.inserted_ids = deserialize_inserts(@, value)]

\* lines 32-90 for one change key.
ChangeKey(st0, p, change_id, up_to) ==
    LET st == SwitchPair(st0, p, up_to)
        value == logs[p][change_id]
        marked == IF change_id # up_to
                  THEN [st EXCEPT !.write_batch = @ \cup {change_id}]
                  ELSE [st EXCEPT !.has_changes = TRUE]
    IN  IF st0.panic # "" THEN st0
        ELSE IF change_id > up_to THEN st
        ELSE IF value.kind = "snapshot" /\ compaction.debug
                /\ marked.inserted_ids # {}
        THEN [marked EXCEPT !.panic = "inserted_ids.is_empty()"]
        ELSE [marked EXCEPT !.inserted_ids = deserialize_inserts(@, value)]

\* The loop of lines 28-90 over the change keys, in key order.
RECURSIVE ChangeKeys(_, _, _, _)
ChangeKeys(st, i, change_id, up_to) ==
    IF i > Len(KeyOrder) THEN st
    ELSE IF KeyOrder[i] \notin DOMAIN logs THEN ChangeKeys(st, i + 1, 1, up_to)
    ELSE IF change_id > MaxLogIndex THEN ChangeKeys(st, i + 1, 1, up_to)
    ELSE IF logs[KeyOrder[i]][change_id].kind = "none"
    THEN ChangeKeys(st, i, change_id + 1, up_to)
    ELSE ChangeKeys(ChangeKey(st, KeyOrder[i], change_id, up_to),
                    i, change_id + 1, up_to)

\* The loop over the Raft keys with last_term taken from the first entry
\* visited instead of the entry at up_to.
RECURSIVE RaftKeysFirstTerm(_, _, _)
RaftKeysFirstTerm(rs, index, up_to) ==
    IF index > MaxLogIndex \/ index > up_to \/ rs.panic # "" THEN rs
    ELSE IF raft[index].kind = "none" THEN RaftKeysFirstTerm(rs, index + 1, up_to)
    ELSE IF raft[index].kind = "snapshot" /\ compaction.debug
            /\ rs.changed_accounts # {}
    THEN [rs EXCEPT !.panic = "changed_accounts.is_empty()"]
    ELSE RaftKeysFirstTerm(
            [changed_accounts |-> rs.changed_accounts \cup raft[index].changed,
             write_batch |-> IF index # up_to THEN rs.write_batch \cup {index}
                             ELSE rs.write_batch,
             last_term |-> IF rs.last_term # <<>> THEN rs.last_term
                           ELSE raft[index].term,
             panic |-> ""],
            index + 1, up_to)

\* lines 107-153: the loop over the Raft keys, in index order.
RECURSIVE RaftKeys(_, _, _)
RaftKeys(rs, index, up_to) ==
    IF index > MaxLogIndex \/ index > up_to \/ rs.panic # "" THEN rs
    ELSE IF raft[index].kind = "none" THEN RaftKeys(rs, index + 1, up_to)
    ELSE IF raft[index].kind = "snapshot" /\ compaction.debug
            /\ rs.changed_accounts # {}
    THEN [rs EXCEPT !.panic = "changed_accounts.is_empty()"]
    ELSE RaftKeys(
            [changed_accounts |-> rs.changed_accounts \cup raft[index].changed,
             write_batch |-> IF index # up_to THEN rs.write_batch \cup {index}
                             ELSE rs.write_batch,
             last_term |-> IF index # up_to THEN rs.last_term
                           ELSE raft[index].term,
             panic |-> ""],
            index + 1, up_to)

\* compact_log, lines 21-193: the Logs and the panic it ends with.
compact_log(up_to) ==
    LET st == ChangeKeys([current |-> NoPair, inserted_ids |-> {},
                          write_batch |-> {}, has_changes |-> FALSE,
                          db |-> logs, panic |-> ""], 1, 1, up_to)
        db == IF st.has_changes /\ st.write_batch # {}
              THEN serialize_snapshot(st.db, st.write_batch, st.inserted_ids,
                                      st.current, up_to)
              ELSE st.db
        rs == RaftKeys([changed_accounts |-> {}, write_batch |-> {},
                        last_term |-> <<>>, panic |-> ""], 1, up_to)
        new_raft == [i \in LogIds |->
                        IF i = up_to
                        THEN [kind |-> "snapshot", term |-> rs.last_term,
                              changed |-> rs.changed_accounts]
                        ELSE IF i \in rs.write_batch THEN NoRaft
                        ELSE raft[i]]
    IN  IF st.panic # ""
        THEN [logs |-> st.db, raft |-> raft, panic |-> st.panic]
        ELSE IF ~st.has_changes
        THEN [logs |-> st.db, raft |-> raft, panic |-> ""]
        ELSE IF rs.panic # ""
        THEN [logs |-> db, raft |-> raft, panic |-> rs.panic]
        ELSE IF compaction.debug /\ rs.last_term = <<>>
        THEN [logs |-> db, raft |-> raft, panic |-> "last_term != MAX"]
        ELSE [logs |-> db, raft |-> new_raft, panic |-> ""]

CompactLog ==
    /\ compaction.panic = ""
    /\ compaction.count < MaxCompactions
    /\ \E up_to \in LogIds :
        /\ LET r == compact_log(up_to)
           IN  /\ logs' = r.logs
               /\ raft' = r.raft
               /\ compaction' = [compaction EXCEPT !.up_to = <<up_to>>,
                                                   !.count = @ + 1,
                                                   !.panic = r.panic]
    /\ UNCHANGED <<changelog, last_change, nonLogVars>>

\* An election: the node's term grows, and the batches written from then
\* on carry it in their Raft id.
NewTerm ==
    /\ compaction.panic = ""
    /\ term < MaxTerm
    /\ term' = term + 1
    /\ UNCHANGED <<peers, uncommitted_index, last_log, commit_index_tx, events>>
    /\ UNCHANGED <<waitVars, mailVars, logVars, blobVars, getVars, aclVars,
                   codecVars, importVars>>

NoCompaction(debug) ==
    [up_to |-> <<>>, count |-> 0, panic |-> "", debug |-> debug]

LogInit(pairs) ==
    /\ logs = [p \in pairs |-> [c \in LogIds |-> NoValue]]
    /\ raft = [i \in LogIds |-> NoRaft]
    /\ changelog = <<>>
    /\ last_change = <<>>

LogIdle == LogInit({}) /\ compaction = NoCompaction(FALSE)

(***************************************************************************)
(* LocalBlobStore (blob/local.rs).  A blob id is content-derived: the blob *)
(* of id n is the n bytes 1 .. n, so every id names one byte string and    *)
(* every offset of a blob holds a different byte; the store sees the empty *)
(* blob and the longest one.  A file is absent, or holds the bytes written *)
(* to it.  blob_stats counts, per blob, the puts that returned Ok and the  *)
(* deletes that returned true; blob_op is the last call and its result.    *)
(***************************************************************************)
BlobIds == {0, MaxBlobLen}
BlobBytes(blob_id) == [i \in 1 .. blob_id |-> i]
\* u32::MAX, at the width the offsets of the model need.
U32MAX == MaxBlobLen + 2
Offsets == 0 .. U32MAX

NoFile == [exists |-> FALSE, bytes |-> <<>>]
NoBlobOp ==
    [op |-> "none", blob_id |-> 0, start |-> 0, end |-> 0, result |-> "none",
     file |-> NoFile, data |-> <<>>]

\* A put in progress: the position of the caller in put, the blob, the
\* offset of its file handle, and what the call returned.
Callers == 1 .. MaxCallers
NoPut == [pc |-> "idle", blob_id |-> 0, written |-> 0, result |-> "none"]

\* put, lines 59-64: a file of the blob's length is already there.
AlreadyStoredNever(file, blob) == FALSE

AlreadyStoredAnyLength(file, blob) == file.exists

AlreadyStored(file, blob) == file.exists /\ Len(file.bytes) = Len(blob)

\* put, lines 56-72, returning Ok.
BlobPut ==
    \E blob_id \in BlobIds :
        LET blob == BlobBytes(blob_id)
            stored == AlreadyStored(files[blob_id], blob)
        IN  /\ blob_stats[blob_id].puts < MaxPuts
            /\ files' = IF stored THEN files
                        ELSE [files EXCEPT ![blob_id] = [exists |-> TRUE, bytes |-> blob]]
            /\ blob_stats' = [blob_stats EXCEPT ![blob_id].puts = @ + 1]
            /\ blob_op' = [NoBlobOp EXCEPT !.op = "put", !.blob_id = blob_id,
                              !.result = IF stored THEN "false" ELSE "true"]
            /\ UNCHANGED <<put_calls, nonBlobVars>>

\* put, lines 66-69: File::create has truncated the file and write_all or
\* flush fails; some prefix of the blob is in the file, put returns Err.
BlobPutFailed ==
    \E blob_id \in BlobIds :
        LET blob == BlobBytes(blob_id)
        IN  /\ blob_stats[blob_id].puts < MaxPuts
            /\ ~AlreadyStored(files[blob_id], blob)
            /\ \E n \in 0 .. Len(blob) :
                files' = [files EXCEPT ![blob_id] =
                            [exists |-> TRUE, bytes |-> SubSeq(blob, 1, n)]]
            /\ blob_op' = [NoBlobOp EXCEPT !.op = "put", !.blob_id = blob_id,
                              !.result = "err"]
            /\ UNCHANGED <<blob_stats, put_calls, nonBlobVars>>

\* delete, lines 103-111.
BlobDelete ==
    \E blob_id \in BlobIds :
        /\ blob_stats[blob_id].deletes < MaxPuts
        /\ files' = [files EXCEPT ![blob_id] = NoFile]
        /\ blob_stats' = [blob_stats EXCEPT ![blob_id].deletes =
                            IF files[blob_id].exists THEN @ + 1 ELSE @]
        /\ blob_op' = [NoBlobOp EXCEPT !.op = "delete", !.blob_id = blob_id,
                          !.result = IF files[blob_id].exists THEN "true" ELSE "false"]
        /\ UNCHANGED <<put_calls, nonBlobVars>>

Min(a, b) == IF a < b THEN a ELSE b

\* get_range, lines 80-100, on an existing file: the bytes read.
get_range(bytes, start, end) ==
    LET blob_size == Len(bytes)
    IN  IF start # 0 \/ end # U32MAX
        THEN LET from_offset == IF start < blob_size THEN start ELSE 0
                 len == Min(end, blob_size) - from_offset
             IN  SubSeq(bytes, from_offset + 1, from_offset + len)
        ELSE bytes

\* get_range, lines 74-101, for a range with start <= end.
BlobGetRange ==
    \E blob_id \in BlobIds, start \in Offsets, end \in Offsets :
        /\ start <= end
        /\ blob_op' = [NoBlobOp EXCEPT
                !.op = "get_range", !.blob_id = blob_id,
                !.start = start, !.end = end, !.file = files[blob_id],
                !.result = IF files[blob_id].exists THEN "some" ELSE "none",
                !.data = IF files[blob_id].exists
                         THEN get_range(files[blob_id].bytes, start, end)
                         ELSE <<>>]
        /\ UNCHANGED <<files, blob_stats, put_calls, nonBlobVars>>

\* A write of one byte through a file handle at `offset`: the bytes before
\* the offset that the file does not have read as zero.
WriteAt(bytes, offset, byte) ==
    [i \in 1 .. (IF Len(bytes) > offset THEN Len(bytes) ELSE offset + 1) |->
        IF i = offset + 1 THEN byte
        ELSE IF i <= Len(bytes) THEN bytes[i] ELSE 0]

\* put, lines 56-57: a caller enters put.  In a serial run no other call
\* is inside put.
PutCall(t, serial) ==
    /\ put_calls[t].pc = "idle"
    /\ serial => \A u \in Callers : put_calls[u].pc \in {"idle", "done", "failed"}
    /\ \E blob_id \in BlobIds :
        put_calls' = [put_calls EXCEPT ![t] = [NoPut EXCEPT !.pc = "check", !.blob_id = blob_id]]
    /\ UNCHANGED <<files, blob_stats, blob_op, nonBlobVars>>

\* put, lines 59-64: the test of the file's length, and the return of
\* Ok(false).
PutCheck(t) ==
    LET blob_id == put_calls[t].blob_id
        stored == AlreadyStored(files[blob_id], BlobBytes(blob_id))
    IN  /\ put_calls[t].pc = "check"
        /\ put_calls' = [put_calls EXCEPT ![t] =
                IF stored THEN [@ EXCEPT !.pc = "done", !.result = "false"]
                ELSE [@ EXCEPT !.pc = "create"]]
        /\ blob_stats' = IF stored THEN [blob_stats EXCEPT ![blob_id].puts = @ + 1]
                         ELSE blob_stats
        /\ blob_op' = IF stored
                      THEN [NoBlobOp EXCEPT !.op = "put", !.blob_id = blob_id, !.result = "false"]
                      ELSE blob_op
        /\ UNCHANGED <<files, nonBlobVars>>

\* put, lines 66-67: File::create makes the file or truncates it; the
\* handle is at offset 0.
PutCreate(t) ==
    LET blob_id == put_calls[t].blob_id
    IN  /\ put_calls[t].pc = "create"
        /\ files' = [files EXCEPT ![blob_id] = [exists |-> TRUE, bytes |-> <<>>]]
        /\ put_calls' = [put_calls EXCEPT ![t] = [@ EXCEPT !.pc = "write", !.written = 0]]
        /\ UNCHANGED <<blob_stats, blob_op, nonBlobVars>>

\* put, line 68: write_all writes the next byte at the handle's offset.
PutWrite(t) ==
    LET blob_id == put_calls[t].blob_id
        blob == BlobBytes(blob_id)
        offset == put_calls[t].written
    IN  /\ put_calls[t].pc = "write"
        /\ offset < Len(blob)
        /\ files' = [files EXCEPT ![blob_id].bytes = WriteAt(@, offset, blob[offset + 1])]
        /\ put_calls' = [put_calls EXCEPT ![t].written = offset + 1]
        /\ UNCHANGED <<blob_stats, blob_op, nonBlobVars>>

\* put, lines 68-71: every byte is written; flush and Ok(true).
PutReturn(t) ==
    LET blob_id == put_calls[t].blob_id
    IN  /\ put_calls[t].pc = "write"
        /\ put_calls[t].written = Len(BlobBytes(blob_id))
        /\ put_calls' = [put_calls EXCEPT ![t] = [@ EXCEPT !.pc = "done", !.result = "true"]]
        /\ blob_stats' = [blob_stats EXCEPT ![blob_id].puts = @ + 1]
        /\ blob_op' = [NoBlobOp EXCEPT !.op = "put", !.blob_id = blob_id, !.result = "true"]
        /\ UNCHANGED <<files, nonBlobVars>>

\* put, line 68: the call ends after File::create and before the last byte
\* is written (write_all returns Err, or the thread stops).
PutInterrupted(t) ==
    LET blob_id == put_calls[t].blob_id
    IN  /\ put_calls[t].pc = "write"
        /\ put_calls[t].written < Len(BlobBytes(blob_id))
        /\ put_calls' = [put_calls EXCEPT ![t] = [@ EXCEPT !.pc = "failed", !.result = "err"]]
        /\ UNCHANGED <<files, blob_stats, blob_op, nonBlobVars>>

BlobInit ==
    /\ files = [b \in BlobIds |-> NoFile]
    /\ blob_stats = [b \in BlobIds |-> [puts |-> 0, deletes |-> 0]]
    /\ blob_op = NoBlobOp
    /\ put_calls = [t \in Callers |-> NoPut]

(***************************************************************************)
(* GetHelper (jmap_store/get.rs).  A JMAPId is a prefix and a DocumentId;  *)
(* the object fetched for an id is written as the id itself.  outcomes is  *)
(* the history of the loop: for each position of request_ids whether       *)
(* get_fnc returned an object ("some"), None ("none"), or was not called   *)
(* ("skipped").                                                            *)
(***************************************************************************)
GetJMAPIds == (0 .. 1) \X DocIds
get_document_id(id) == id[2]
\* default_mapper, lines 36-38: the DocumentId as a JMAPId.
default_mapper(document_ids) == [i \in DOMAIN document_ids |-> <<0, document_ids[i]>>]

RequestIds == UNION {[1 .. n -> GetJMAPIds] : n \in 0 .. MaxObjectsInGet + 1}
\* The DocumentIds the collection may hold: one more than a get processes.
LiveDocIds == 0 .. MaxObjectsInGet

GetHelperIdle ==
    [pc |-> "idle", ids |-> <<>>, validate_ids |-> FALSE, live |-> {},
     document_ids |-> {},
     request_ids |-> <<>>, list |-> <<>>, not_found |-> <<>>, outcomes |-> <<>>,
     error |-> ""]

\* line 79 with the bound off by one: a list of exactly the cap is refused.
RequestTooLargeAtCap(request_ids) == Len(request_ids) >= MaxObjectsInGet

\* line 79: request_ids.len() > store.config.max_objects_in_get
RequestTooLarge(request_ids) == Len(request_ids) > MaxObjectsInGet

\* GetHelper::new, lines 47-114.  request.ids is <<>> when absent and <<l>>
\* when the list l was given; live is what get_document_ids returns;
\* validate_ids is id_mapper.is_some() and the mapper is default_mapper.
GetHelperNew ==
    /\ get_helper.pc = "idle"
    /\ \E validate_ids \in BOOLEAN, live \in SUBSET LiveDocIds,
          ids \in {<<>>} \cup {<<l>> : l \in RequestIds} :
        LET document_ids == IF validate_ids THEN live ELSE {}
            helper == [GetHelperIdle EXCEPT !.ids = ids, !.live = live,
                                            !.validate_ids = validate_ids,
                                            !.document_ids = document_ids]
            all == SetToSeq(document_ids)
        IN  get_helper' =
                IF ids # <<>>
                THEN IF RequestTooLarge(ids[1])
                     THEN [helper EXCEPT !.pc = "done", !.error = "RequestTooLarge"]
                     ELSE [helper EXCEPT !.pc = "get", !.request_ids = ids[1]]
                ELSE IF document_ids # {}
                THEN [helper EXCEPT
                        !.pc = "get",
                        !.request_ids = default_mapper(
                            SubSeq(all, 1, Min(Len(all), MaxObjectsInGet)))]
                ELSE [helper EXCEPT !.pc = "get"]
    /\ UNCHANGED nonGetVars

\* line 121: the id is handed to get_fnc.
IsFetchedAlways(validate_ids, document_ids, id) == TRUE

IsFetched(validate_ids, document_ids, id) ==
    ~validate_ids \/ get_document_id(id) \in document_ids

\* GetHelper::get, lines 120-127: one turn of the loop.
GetHelperGet ==
    /\ get_helper.pc = "get"
    /\ Len(get_helper.outcomes) < Len(get_helper.request_ids)
    /\ LET id == get_helper.request_ids[Len(get_helper.outcomes) + 1]
       IN  IF IsFetched(get_helper.validate_ids, get_helper.document_ids, id)
           THEN \E result \in {"some", "none", "err"} :
                    get_helper' =
                        IF result = "some"
                        THEN [get_helper EXCEPT !.list = Append(@, id),
                                                !.outcomes = Append(@, result)]
                        ELSE IF result = "none"
                        THEN [get_helper EXCEPT !.not_found = Append(@, id),
                                                !.outcomes = Append(@, result)]
                        ELSE [get_helper EXCEPT !.pc = "done",
                                                !.error = "InternalError"]
           ELSE get_helper' = [get_helper EXCEPT !.not_found = Append(@, id),
                                                 !.outcomes = Append(@, "skipped")]
    /\ UNCHANGED nonGetVars

\* line 128: Ok(self.response)
GetHelperDone ==
    /\ get_helper.pc = "get"
    /\ Len(get_helper.outcomes) = Len(get_helper.request_ids)
    /\ get_helper' = [get_helper EXCEPT !.pc = "done"]
    /\ UNCHANGED nonGetVars

\* The caller takes the response or the error.
GetHelperReturn ==
    /\ get_helper.pc = "done"
    /\ get_helper' = GetHelperIdle
    /\ UNCHANGED nonGetVars

(***************************************************************************)
(* TinyORM's ACL list (orm/acl.rs): a vector of Permission {id, acl}.  A   *)
(* Bitmap<ACL> is the set of its ACL values, an ACL value is written as    *)
(* its bit, and ACL::None_ is no bit.  orm.finished records that the last  *)
(* call on the list was acl_finish and orm.sorted_from the list that call  *)
(* found; orm.prev is the revision the document was last saved as, if any; *)
(* orm.changed is the last reply of get_changed_acls.                      *)
(***************************************************************************)
ACLValues == {1, 2}
None_ == 0
Bitmaps == SUBSET ACLValues
Permission(id, acl) == [id |-> id, acl |-> acl]

NotCalled == [called |-> FALSE, some |-> FALSE, acls |-> {}]

OrmNew ==
    [acls |-> <<>>, finished |-> FALSE, sorted_from |-> <<>>, prev |-> <<>>,
     changed |-> NotCalled]

\* iter().position(|p| p.id == account_id): the first index, 0 for None.
position(acls, account_id) ==
    IF \E i \in DOMAIN acls : acls[i].id = account_id
    THEN CHOOSE i \in DOMAIN acls :
            /\ acls[i].id = account_id
            /\ \A j \in DOMAIN acls : acls[j].id = account_id => i <= j
    ELSE 0

\* Vec::swap_remove: the last element takes the place of the removed one.
swap_remove(v, pos) == SubSeq([v EXCEPT ![pos] = v[Len(v)]], 1, Len(v) - 1)

\* acl_revoke, lines 61-65.
acl_revoke(acls, account_id) ==
    LET pos == position(acls, account_id)
    IN  IF pos # 0 THEN swap_remove(acls, pos) ELSE acls

\* acl_update without the lookup of line 70: the entry is always pushed.
acl_update_push(acls, account_id, acl) ==
    IF acl # {}
    THEN Append(acls, Permission(account_id, acl))
    ELSE acl_revoke(acls, account_id)

\* acl_update, lines 67-83.
acl_update(acls, account_id, acl) ==
    LET pos == position(acls, account_id)
    IN  IF acl # {}
        THEN IF pos # 0
             THEN [acls EXCEPT ![pos].acl = acl]
             ELSE Append(acls, Permission(account_id, acl))
        ELSE acl_revoke(acls, account_id)

\* acl_set, lines 85-103.
acl_set(acls, account_id, acl, is_set) ==
    LET pos == position(acls, account_id)
    IN  IF acl # None_
        THEN IF pos # 0
             THEN IF is_set
                  THEN [acls EXCEPT ![pos].acl = @ \cup {acl}]
                  ELSE IF acls[pos].acl \ {acl} = {}
                       THEN acl_revoke([acls EXCEPT ![pos].acl = {}], account_id)
                       ELSE [acls EXCEPT ![pos].acl = @ \ {acl}]
             ELSE IF is_set
                  THEN Append(acls, Permission(account_id, {acl}))
                  ELSE acls
        ELSE acls

\* The order of Permission: by id, then by the bitmap's bits.
RECURSIVE BitmapBits(_)
BitmapBits(acl) ==
    IF acl = {} THEN 0
    ELSE LET b == CHOOSE x \in acl : TRUE IN b + BitmapBits(acl \ {b})

PermissionLe(p, q) ==
    p.id < q.id \/ (p.id = q.id /\ BitmapBits(p.acl) <= BitmapBits(q.acl))

RECURSIVE InsertPermission(_, _)
InsertPermission(s, x) ==
    IF s = <<>> THEN <<x>>
    ELSE IF PermissionLe(x, Head(s)) THEN <<x>> \o s
    ELSE <<Head(s)>> \o InsertPermission(Tail(s), x)

\* acl_finish, line 110: self.acls.sort_unstable()
RECURSIVE sort_acls(_)
sort_acls(acls) ==
    IF acls = <<>> THEN <<>>
    ELSE InsertPermission(sort_acls(Tail(acls)), Head(acls))

\* The edit calls: each leaves the list not finished.
AclRevoke ==
    /\ \E account_id \in Accounts :
        orm' = [orm EXCEPT !.acls = acl_revoke(@, account_id),
                           !.finished = FALSE, !.sorted_from = <<>>,
                           !.changed = NotCalled]
    /\ UNCHANGED nonAclVars

AclUpdate ==
    /\ \E account_id \in Accounts, acl \in Bitmaps :
        orm' = [orm EXCEPT !.acls = acl_update(@, account_id, acl),
                           !.finished = FALSE, !.sorted_from = <<>>,
                           !.changed = NotCalled]
    /\ UNCHANGED nonAclVars

AclSet ==
    /\ \E account_id \in Accounts, acl \in ACLValues \cup {None_},
          is_set \in BOOLEAN :
        orm' = [orm EXCEPT !.acls = acl_set(@, account_id, acl, is_set),
                           !.finished = FALSE, !.sorted_from = <<>>,
                           !.changed = NotCalled]
    /\ UNCHANGED nonAclVars

\* acl_clear, lines 105-107.
AclClear ==
    /\ orm' = [orm EXCEPT !.acls = <<>>, !.finished = FALSE,
                          !.sorted_from = <<>>, !.changed = NotCalled]
    /\ UNCHANGED nonAclVars

AclFinish ==
    /\ orm' = [orm EXCEPT !.acls = sort_acls(@), !.finished = TRUE,
                          !.sorted_from = orm.acls, !.changed = NotCalled]
    /\ UNCHANGED nonAclVars

\* The entries of a that b does not contain (line 132).
NotContained(a, b) ==
    {a[i] : i \in DOMAIN a} \ {b[i] : i \in DOMAIN b}

\* get_changed_acls that looks at the receiver's entries only.
get_changed_acls_one_way(acls, changes) ==
    IF changes # <<>>
    THEN IF changes[1] # acls
         THEN LET differ == NotContained(acls, changes[1])
              IN  [called |-> TRUE, some |-> TRUE,
                   acls |-> {Permission(id,
                                UNION {p.acl : p \in {q \in differ : q.id = id}})
                             : id \in {p.id : p \in differ}}]
         ELSE [called |-> TRUE, some |-> FALSE, acls |-> {}]
    ELSE IF acls # <<>>
         THEN [called |-> TRUE, some |-> TRUE,
               acls |-> {acls[i] : i \in DOMAIN acls}]
         ELSE [called |-> TRUE, some |-> FALSE, acls |-> {}]

\* get_changed_acls, lines 126-156.  changes is <<>> for None and <<l>> for
\* the list l of the other revision.  The reply is collected from a hash
\* map, so its order is not defined: it is kept as a set.
get_changed_acls(acls, changes) ==
    IF changes # <<>>
    THEN IF changes[1] # acls
         THEN LET differ == NotContained(acls, changes[1])
                            \cup NotContained(changes[1], acls)
              IN  [called |-> TRUE, some |-> TRUE,
                   acls |-> {Permission(id,
                                UNION {p.acl : p \in {q \in differ : q.id = id}})
                             : id \in {p.id : p \in differ}}]
         ELSE [called |-> TRUE, some |-> FALSE, acls |-> {}]
    ELSE IF acls # <<>>
         THEN [called |-> TRUE, some |-> TRUE,
               acls |-> {acls[i] : i \in DOMAIN acls}]
         ELSE [called |-> TRUE, some |-> FALSE, acls |-> {}]

\* The document under edit is compared with its previous revision.
GetChangedAcls ==
    /\ orm' = [orm EXCEPT !.changed = get_changed_acls(orm.acls, orm.prev)]
    /\ UNCHANGED nonAclVars

\* The finished document is written: it is the previous revision of the
\* next edit.
OrmSave ==
    /\ orm.finished
    /\ orm.prev # <<orm.acls>>
    /\ orm' = [orm EXCEPT !.prev = <<orm.acls>>, !.changed = NotCalled]
    /\ UNCHANGED nonAclVars

AclIdle == orm = OrmNew

(***************************************************************************)
(* Calls of JMAPIdSerialize.  to_jmap_string is given any id; the string   *)
(* it returns is read back.  from_jmap_string is given any string of up to *)
(* IdHexDigits + 2 characters over IdChars: digits of both cases, a letter *)
(* that is no digit, the signs and 'i'.                                    *)
(***************************************************************************)
JMAPIdValues == 0 .. JMAPIdMAX
IdChars == {"i", "0", "1", "f", "F", "g", "+", "-"}
IdInputs == UNION {[1 .. n -> IdChars] : n \in 0 .. IdHexDigits + 2}

NoCodecCall == [op |-> "", id |-> 0, string |-> <<>>, parsed |-> <<>>]

ToJmapString ==
    /\ codec = NoCodecCall
    /\ \E id \in JMAPIdValues :
        codec' = [op |-> "to_jmap_string", id |-> id,
                  string |-> to_jmap_string(id),
                  parsed |-> from_jmap_string(to_jmap_string(id))]
    /\ UNCHANGED nonCodecVars

FromJmapString ==
    /\ codec = NoCodecCall
    /\ \E id \in IdInputs :
        codec' = [op |-> "from_jmap_string", id |-> 0, string |-> id,
                  parsed |-> from_jmap_string(id)]
    /\ UNCHANGED nonCodecVars

\* The caller has taken the value.
CodecReturn ==
    /\ codec # NoCodecCall
    /\ codec' = NoCodecCall
    /\ UNCHANGED nonCodecVars

CodecIdle == codec = NoCodecCall

GetIdle == get_helper = GetHelperIdle

(***************************************************************************)
(* import_body_structure (jmap_mail/mail/set.rs).  The bodyStructure of a  *)
(* request is a tree of parts 1 .. n, part 1 the root, the children of a   *)
(* part in ascending order.  A part is a multipart/* part with a subParts  *)
(* array, a multipart/* part without one, a part import_body_part accepts  *)
(* as a leaf, or a part import_body_part rejects.  A MimePart is written   *)
(* [part, multipart, parts].                                               *)
(***************************************************************************)
PartKinds == {"multipart", "multipart_no_sub_parts", "leaf", "invalid"}

ParentsOf(n) ==
    {p \in [1 .. n -> 0 .. n - 1] : p[1] = 0 /\ \A i \in 2 .. n : p[i] >= 1 /\ p[i] < i}

BodyStructures ==
    UNION {{[n |-> n, parent |-> p, kind |-> k] : p \in ParentsOf(n), k \in [1 .. n -> PartKinds]}
            : n \in 1 .. MaxParts}

\* part.get("subParts") as the array the client sent.
subParts(tree, i) == SetToSeq({j \in 1 .. tree.n : tree.parent[j] = i})

\* import_body_part, lines 827-1073: Err, or the MimePart of the part alone
\* and, for a multipart/* part with a subParts array, that array.
import_body_part(tree, i) ==
    LET is_multipart == tree.kind[i] \in {"multipart", "multipart_no_sub_parts"}
    IN  IF tree.kind[i] = "invalid"
        THEN [ok |-> FALSE, error |-> i]
        ELSE [ok |-> TRUE,
              mime_part |-> [part |-> i, multipart |-> is_multipart, parts |-> <<>>],
              sub_parts |-> IF tree.kind[i] = "multipart" THEN <<subParts(tree, i)>>
                            ELSE <<>>]

\* MimePart::add_part, as called at lines 811 and 815.
add_part(mime_part, part) ==
    IF mime_part.multipart THEN [mime_part EXCEPT !.parts = Append(@, part)]
    ELSE mime_part

NoImport ==
    [pc |-> "idle", part |-> [n |-> 1, parent |-> <<0>>, kind |-> <<"leaf">>],
     mime_part |-> <<>>, it |-> <<>>, stack |-> <<>>, result |-> <<>>]

\* Lines 795-798 and, for a part without sub parts, line 824.
ImportBegin ==
    LET r == import_body_part(body_import.part, 1)
    IN  /\ body_import.pc = "call"
        /\ body_import' =
            IF ~r.ok
            THEN [body_import EXCEPT !.pc = "done", !.result = <<r>>]
            ELSE IF r.sub_parts = <<>>
            THEN [body_import EXCEPT !.pc = "done",
                    !.result = <<[ok |-> TRUE, mime_part |-> r.mime_part]>>]
            ELSE [body_import EXCEPT !.pc = "loop", !.mime_part = r.mime_part,
                    !.it = r.sub_parts[1], !.stack = <<>>]
        /\ UNCHANGED nonImportVars

\* Lines 814-817: the step that ends a multipart part whose parts are all
\* imported, without the add_part of line 815.
ImportPopDetached ==
    /\ body_import.pc = "loop"
    /\ body_import.it = <<>>
    /\ body_import.stack # <<>>
    /\ LET top == body_import.stack[Len(body_import.stack)]
       IN  body_import' = [body_import EXCEPT
                !.mime_part = top.mime_part,
                !.it = top.it,
                !.stack = SubSeq(@, 1, Len(@) - 1)]
    /\ UNCHANGED nonImportVars

\* Lines 803-813: one turn of the while loop.
ImportNext ==
    /\ body_import.pc = "loop"
    /\ body_import.it # <<>>
    /\ LET part == Head(body_import.it)
           it == Tail(body_import.it)
           r == import_body_part(body_import.part, part)
       IN  body_import' =
            IF ~r.ok
            THEN [body_import EXCEPT !.pc = "done", !.it = it, !.result = <<r>>]
            ELSE IF r.sub_parts # <<>>
            THEN [body_import EXCEPT
                    !.stack = Append(@, [mime_part |-> body_import.mime_part, it |-> it]),
                    !.mime_part = r.mime_part,
                    !.it = r.sub_parts[1]]
            ELSE [body_import EXCEPT
                    !.it = it,
                    !.mime_part = add_part(@, r.mime_part)]
    /\ UNCHANGED nonImportVars

\* Lines 814-817: the iterator is at its end and the stack holds a parent.
ImportPop ==
    /\ body_import.pc = "loop"
    /\ body_import.it = <<>>
    /\ body_import.stack # <<>>
    /\ LET top == body_import.stack[Len(body_import.stack)]
       IN  body_import' = [body_import EXCEPT
                !.mime_part = add_part(top.mime_part, body_import.mime_part),
                !.it = top.it,
                !.stack = SubSeq(@, 1, Len(@) - 1)]
    /\ UNCHANGED nonImportVars

\* Lines 818-824: the stack is empty; break and Ok(mime_part).
ImportReturn ==
    /\ body_import.pc = "loop"
    /\ body_import.it = <<>>
    /\ body_import.stack = <<>>
    /\ body_import' = [body_import EXCEPT !.pc = "done",
            !.result = <<[ok |-> TRUE, mime_part |-> body_import.mime_part]>>]
    /\ UNCHANGED nonImportVars

ImportIdle == body_import = NoImport

ServerIdle == BlobInit /\ GetIdle /\ AclIdle /\ CodecIdle /\ ImportIdle

vars == <<clusterVars, waitVars, mailVars, logVars, blobVars, getVars, aclVars, codecVars, importVars>>

(***************************************************************************)
(* SpecCommit: the leader of a shard of any size (1 .. NPeers + 1 nodes)   *)
(* receives local appends and peer replies.                                *)
(***************************************************************************)
InitCommit ==
    ClusterInit(AllShards) /\ WaitIdle /\ MailIdle /\ LogIdle /\ ServerIdle

NextCommit ==
    \/ PeerReply
    \/ HandleAdvanceUncommittedIndex
    \/ SubmitUncommitted

SpecCommit == InitCommit /\ [][NextCommit]_vars

(***************************************************************************)
(* SpecWait: one request-scoped waiter beside the cluster task of a        *)
(* three-node shard, with a clock.                                         *)
(***************************************************************************)
InitWait ==
    /\ ClusterInit(ThreeNodeShard)
    /\ clustered \in BOOLEAN
    /\ is_leader \in BOOLEAN
    /\ waiter = WaiterIdle
    /\ now = 0
    /\ MailIdle
    /\ LogIdle
    /\ ServerIdle

NextWait ==
    \/ (clustered /\ is_leader /\ PeerReply)
    \/ (clustered /\ HandleAdvanceUncommittedIndex)
    \/ (clustered /\ ClusterShutdown)
    \/ CommitIndexCall
    \/ SendOk
    \/ SendFailed
    \/ PollChanged
    \/ PollClosed
    \/ PollTimeout
    \/ CommitIndexReturn
    \/ Tick

SpecWait == InitWait /\ [][NextWait]_vars

(***************************************************************************)
(* C1.  advance_commit_index raises the committed index last_log.index to  *)
(* i only if a strict majority of the shard's nodes (the leader by its     *)
(* uncommitted_index, each in-shard peer by its recorded commit_index)     *)
(* have reached i; peers outside the shard do not count.                   *)
(***************************************************************************)
Reached(x, i) == x # LogIndexMAX /\ x >= i

ShardSize == Cardinality({p \in PeerIds : peers[p].in_shard}) + 1

ReachedCount(ps, unc, i) ==
    Cardinality({p \in PeerIds : ps[p].in_shard /\ Reached(ps[p].commit_index, i)})
    + (IF Reached(unc, i) THEN 1 ELSE 0)

C1_CommitNeedsStrictMajority ==
    [][last_log'.index # last_log.index =>
        2 * ReachedCount(peers', uncommitted_index', last_log'.index) > ShardSize]_vars

(***************************************************************************)
(* C10.  commit_index(index) returns true only after it has read from the  *)
(* commit-index watch channel a value >= index, and only on a clustered    *)
(* leader; a call that took the not-clustered, not-leader, send-failure,   *)
(* timeout (Err(_) of time::timeout, or the elapsed test of line 121) or   *)
(* channel-closure (Ok(Err(_))) path returns false.                        *)
(***************************************************************************)
C10_TrueOnlyAfterObserved ==
    waiter.pc = "done" =>
        /\ waiter.result =>
            /\ waiter.observed # <<>>
            /\ waiter.observed[1] >= waiter.index
            /\ clustered /\ is_leader
        /\ waiter.branch \in {"not_clustered", "not_leader", "send_failed",
                              "timeout", "elapsed", "channel_closed"}
            => ~waiter.result

\* The waiter saw an index that was too small, kept waiting, and then
\* returned true on a later publication.
C10_Witness ==
    /\ waiter.pc = "done" /\ waiter.result
    /\ waiter.index > 0
    /\ now > waiter.wait_start

(***************************************************************************)
(* SpecMail: mail_set calls on one account, one at a time.                 *)
(* SpecMailRace: two mail_set calls on the account run concurrently.       *)
(***************************************************************************)
RaftIdle == ClusterInit(ThreeNodeShard) /\ WaitIdle /\ ServerIdle

InitMail == RaftIdle /\ LogIdle /\ StoreInit /\ calls = <<CallIdle>>

NextMail ==
    \/ \E c \in DOMAIN calls : MailSetBegin(c)
    \/ \E c \in DOMAIN calls : ReadDocumentIds(c)
    \/ \E c \in DOMAIN calls : CreateImported(c, MaxCreates, OneLocalId)
    \/ \E c \in DOMAIN calls : CreateRejected(c, MaxCreates, OneLocalId)
    \/ \E c \in DOMAIN calls : CreateImportFailed(c)
    \/ \E c \in DOMAIN calls : EndCreates(c, CanonicalIds)
    \/ \E c \in DOMAIN calls : UpdateStep(c, CanonicalIds)
    \/ \E c \in DOMAIN calls : WriteOk(c)
    \/ \E c \in DOMAIN calls : WriteFailed(c)
    \/ \E c \in DOMAIN calls : NoWrite(c)
    \/ \E c \in DOMAIN calls : RereadState(c)
    \/ \E c \in DOMAIN calls : MailSetReturn(c)

SpecMail == InitMail /\ [][NextMail]_vars

\* One message is in the store, as a first create left it; each of the two
\* callers makes one call, whose request has updates and destroys and an
\* empty create map.
InitMailRace ==
    /\ RaftIdle
    /\ LogIdle
    /\ messages = [d \in DocIds |->
                    IF d = 0
                    THEN [live |-> TRUE, mailboxes |-> {0}, keywords |-> {}]
                    ELSE NoMessage]
    /\ change_ids = [Mail |-> 1]
    /\ calls = <<CallIdle, CallIdle>>

NextMailRace ==
    \/ \E c \in DOMAIN calls : MailSetBegin(c)
    \/ \E c \in DOMAIN calls : ReadDocumentIds(c)
    \/ \E c \in DOMAIN calls : EndCreates(c, CanonicalIds)
    \/ \E c \in DOMAIN calls : UpdateStep(c, CanonicalIds)
    \/ \E c \in DOMAIN calls : WriteOk(c)
    \/ \E c \in DOMAIN calls : WriteFailed(c)
    \/ \E c \in DOMAIN calls : NoWrite(c)
    \/ \E c \in DOMAIN calls : RereadState(c)

SpecMailRace == InitMailRace /\ [][NextMailRace]_vars

\* One message is in two mailboxes; requests with an empty create map name
\* their targets by any id string, one call after another.
InitMailIds ==
    /\ RaftIdle
    /\ LogIdle
    /\ messages \in {[d \in DocIds |->
                        IF d = 0
                        THEN [live |-> TRUE, mailboxes |-> MailboxIds, keywords |-> K]
                        ELSE NoMessage] : K \in {{}, {SEEN}}}
    /\ change_ids = [Mail |-> 1]
    /\ calls = <<CallIdle>>

NextMailIds ==
    \/ \E c \in DOMAIN calls : MailSetBegin(c)
    \/ \E c \in DOMAIN calls : ReadDocumentIds(c)
    \/ \E c \in DOMAIN calls : EndCreates(c, IdStrings)
    \/ \E c \in DOMAIN calls : UpdateStep(c, IdStrings)
    \/ \E c \in DOMAIN calls : WriteOk(c)
    \/ \E c \in DOMAIN calls : WriteFailed(c)
    \/ \E c \in DOMAIN calls : NoWrite(c)
    \/ \E c \in DOMAIN calls : RereadState(c)
    \/ \E c \in DOMAIN calls : MailSetReturn(c)

SpecMailIds == InitMailIds /\ [][NextMailIds]_vars

\* Requests of creates only, one more than MaxCreates each, whose mailboxIds
\* may name their mailboxes by creation id.
InitMailRef == RaftIdle /\ LogIdle /\ StoreInit /\ calls = <<CallIdle>>

NextMailRef ==
    \/ \E c \in DOMAIN calls : MailSetBegin(c)
    \/ \E c \in DOMAIN calls : ReadDocumentIds(c)
    \/ \E c \in DOMAIN calls : CreateImported(c, MaxCreates + 1, LocalIds)
    \/ \E c \in DOMAIN calls : CreateRejected(c, MaxCreates + 1, LocalIds)
    \/ \E c \in DOMAIN calls : EndCreates(c, {})
    \/ \E c \in DOMAIN calls : NoWrite(c)
    \/ \E c \in DOMAIN calls : MailSetReturn(c)

SpecMailRef == InitMailRef /\ [][NextMailRef]_vars

\* One message is in the store, in any of its mailbox and keyword sets; a
\* request has an empty create map, no destroys and one update of the
\* message, whose patch the call keeps as it was read.
InitMailPatch ==
    /\ RaftIdle
    /\ LogIdle
    /\ messages \in {[d \in DocIds |->
                        IF d = 0
                        THEN [live |-> TRUE, mailboxes |-> M, keywords |-> K]
                        ELSE NoMessage] :
                     M \in (SUBSET MailboxIds) \ {{}}, K \in SUBSET Keywords}
    /\ change_ids = [Mail |-> 1]
    /\ calls = <<CallIdle>>

NextMailPatch ==
    \/ \E c \in DOMAIN calls : MailSetBegin(c)
    \/ \E c \in DOMAIN calls : ReadDocumentIds(c)
    \/ \E c \in DOMAIN calls : EndCreates(c, {})
    \/ \E c \in DOMAIN calls :
            UpdateEntry(c, {to_jmap_string(0)}, PlainPatches, TRUE)
    \/ \E c \in DOMAIN calls : WriteOk(c)
    \/ \E c \in DOMAIN calls : WriteFailed(c)
    \/ \E c \in DOMAIN calls : NoWrite(c)
    \/ \E c \in DOMAIN calls : RereadState(c)
    \/ \E c \in DOMAIN calls : MailSetReturn(c)

SpecMailPatch == InitMailPatch /\ [][NextMailPatch]_vars

(***************************************************************************)
(* SpecChanges: batches are appended to the change log of one collection   *)
(* and readers ask for its changes.                                        *)
(* SpecCompact: batches of several (account, collection) pairs, each entry *)
(* of one logged action, and compact_log calls, in a debug or a release    *)
(* build.                                                                  *)
(***************************************************************************)
OtherIdle == RaftIdle /\ MailIdle

InitChanges ==
    /\ OtherIdle
    /\ LogInit({KeyOrder[1]})
    /\ compaction = NoCompaction(FALSE)

NextChanges == AppendBatch(3 * MaxIds) \/ GetChanges \/ ReplyTaken

SpecChanges == InitChanges /\ [][NextChanges]_vars

InitCompact ==
    /\ OtherIdle
    /\ LogInit(Pairs)
    /\ \E debug \in BOOLEAN : compaction = NoCompaction(debug)

NextCompact == AppendBatch(1) \/ CompactLog

SpecCompact == InitCompact /\ [][NextCompact]_vars

(***************************************************************************)
(* SpecCompactTerms: batches of single actions over one pair of each of    *)
(* two accounts, written in terms that grow between batches, and           *)
(* compact_log calls, in a debug or a release build.                       *)
(***************************************************************************)
InitCompactTerms ==
    /\ OtherIdle
    /\ LogInit({KeyOrder[2], KeyOrder[3]})
    /\ \E debug \in BOOLEAN : compaction = NoCompaction(debug)

NextCompactTerms ==
    \/ AppendBatch(1)
    \/ CompactLog
    \/ NewTerm

SpecCompactTerms == InitCompactTerms /\ [][NextCompactTerms]_vars

(***************************************************************************)
(* SpecLogs: batches of single actions are logged for the two collections  *)
(* of one account and one collection of another, and readers ask for the   *)
(* changes and for the last change id of any of the three pairs.           *)
(***************************************************************************)
InitLogs ==
    /\ OtherIdle
    /\ LogInit({KeyOrder[i] : i \in 1 .. 3})
    /\ compaction = NoCompaction(FALSE)

NextLogs ==
    \/ AppendBatch(1)
    \/ GetChanges
    \/ GetLastChangeId
    \/ ReplyTaken

SpecLogs == InitLogs /\ [][NextLogs]_vars

(***************************************************************************)
(* SpecBlob: puts, deletes and range reads of the blob store, one call at  *)
(* a time.                                                                 *)
(***************************************************************************)
InitBlob ==
    /\ ClusterInit(ThreeNodeShard) /\ WaitIdle /\ MailIdle /\ LogIdle
    /\ BlobInit /\ GetIdle /\ AclIdle /\ CodecIdle /\ ImportIdle

NextBlob ==
    \/ BlobPut
    \/ BlobPutFailed
    \/ BlobDelete
    \/ BlobGetRange

SpecBlob == InitBlob /\ [][NextBlob]_vars

(***************************************************************************)
(* SpecBlobRace: the callers run put at the same time, step by step.       *)
(***************************************************************************)
NextBlobRace ==
    \/ \E t \in Callers : PutCall(t, FALSE)
    \/ \E t \in Callers : PutCheck(t)
    \/ \E t \in Callers : PutCreate(t)
    \/ \E t \in Callers : PutWrite(t)
    \/ \E t \in Callers : PutReturn(t)

SpecBlobRace == InitBlob /\ [][NextBlobRace]_vars

(***************************************************************************)
(* SpecBlobRetry: one put after another, step by step; a put may end       *)
(* before its last byte is written; range reads at any time.               *)
(***************************************************************************)
NextBlobRetry ==
    \/ \E t \in Callers : PutCall(t, TRUE)
    \/ \E t \in Callers : PutCheck(t)
    \/ \E t \in Callers : PutCreate(t)
    \/ \E t \in Callers : PutWrite(t)
    \/ \E t \in Callers : PutReturn(t)
    \/ \E t \in Callers : PutInterrupted(t)
    \/ BlobGetRange

SpecBlobRetry == InitBlob /\ [][NextBlobRetry]_vars

(***************************************************************************)
(* SpecImport: import_body_structure on any bodyStructure of at most       *)
(* MaxParts parts.  SpecImportLive: the same, the call keeps running until *)
(* it returns.                                                             *)
(***************************************************************************)
InitImport ==
    /\ ClusterInit(ThreeNodeShard) /\ WaitIdle /\ MailIdle /\ LogIdle
    /\ BlobInit /\ GetIdle /\ AclIdle /\ CodecIdle
    /\ \E tree \in BodyStructures :
        body_import = [NoImport EXCEPT !.pc = "call", !.part = tree]

NextImport ==
    \/ ImportBegin
    \/ ImportNext
    \/ ImportPop
    \/ ImportReturn

SpecImport == InitImport /\ [][NextImport]_vars

SpecImportLive == SpecImport /\ WF_vars(NextImport)

(***************************************************************************)
(* SpecGet: one get after another.                                         *)
(***************************************************************************)
InitGet == InitBlob

NextGet ==
    \/ GetHelperNew
    \/ GetHelperGet
    \/ GetHelperDone
    \/ GetHelperReturn

SpecGet == InitGet /\ [][NextGet]_vars

(***************************************************************************)
(* SpecAcl: the ACL list of one document is edited, finished, compared     *)
(* with the previous revision and saved, again and again.                  *)
(***************************************************************************)
InitAcl == InitBlob

NextAcl ==
    \/ AclRevoke
    \/ AclUpdate
    \/ AclSet
    \/ AclClear
    \/ AclFinish
    \/ GetChangedAcls
    \/ OrmSave

SpecAcl == InitAcl /\ [][NextAcl]_vars

(***************************************************************************)
(* SpecCodec: ids are written and strings are read, one after another.     *)
(***************************************************************************)
InitCodec == InitBlob

NextCodec ==
    \/ ToJmapString
    \/ FromJmapString
    \/ CodecReturn

SpecCodec == InitCodec /\ [][NextCodec]_vars

(***************************************************************************)
(* C2: a mail_set call whose if_in_state is given and differs from the     *)
(* current state of Mail ends at once with StateMismatch, and the step     *)
(* leaves the messages and the change ids as they were; the call has       *)
(* written nothing.                                                        *)
(***************************************************************************)
C2_StateMismatchLeavesStore ==
    [][\A c \in DOMAIN calls :
        (/\ calls[c].pc = "idle"
         /\ calls'[c].pc # "idle"
         /\ calls'[c].if_in_state # <<>>
         /\ calls'[c].if_in_state[1] # get_state("Mail"))
        => /\ calls'[c].pc = "done"
           /\ calls'[c].result = "StateMismatch"
           /\ calls'[c].writes = 0
           /\ UNCHANGED storeVars]_vars

C2_Witness ==
    \E c \in DOMAIN calls :
        /\ calls[c].pc = "done"
        /\ calls[c].result = "StateMismatch"
        /\ get_state("Mail") > 0
        /\ get_document_ids # {}

(***************************************************************************)
(* C3: of two mail_set calls on the account that carry the same            *)
(* if_in_state, at most one commits: never have both finished with a       *)
(* committed write.                                                        *)
(***************************************************************************)
C3_AtMostOneCommits ==
    \A c1, c2 \in DOMAIN calls :
        (/\ c1 # c2
         /\ calls[c1].pc = "done" /\ calls[c2].pc = "done"
         /\ calls[c1].if_in_state # <<>>
         /\ calls[c1].if_in_state = calls[c2].if_in_state
         /\ calls[c1].writes > 0)
        => /\ calls[c2].writes = 0
           /\ calls[c2].result # "ok"

(***************************************************************************)
(* C4: a mail_set call that returns a response reports a newState that     *)
(* differs from its oldState exactly when it committed a write to Mail.    *)
(***************************************************************************)
C4_NewStateIffCommitted ==
    \A c \in DOMAIN calls :
        (calls[c].pc = "done" /\ calls[c].result = "ok")
        => ((calls[c].new_state # calls[c].old_state) <=> (calls[c].writes > 0))

(***************************************************************************)
(* C5: the mutations of one mail_set call are committed in one write, and  *)
(* a call that ends with a method error has written nothing.               *)
(***************************************************************************)
C5_AllOrNothing ==
    \A c \in DOMAIN calls :
        /\ calls[c].writes <= 1
        /\ (calls[c].pc = "done" /\ calls[c].result = "InternalError")
            => calls[c].writes = 0

\* The set of live ids after the changes of a collapsed ChangeLog are
\* applied, in order, to a set of live ids.
RECURSIVE ApplyChanges(_, _)
ApplyChanges(changes, live) ==
    IF changes = <<>> THEN live
    ELSE ApplyChanges(Tail(changes),
            IF Head(changes)[1] = "Insert" THEN live \cup {Head(changes)[2]}
            ELSE IF Head(changes)[1] = "Delete" THEN live \ {Head(changes)[2]}
            ELSE live)

\* The change ids a query replays.
Replayed(q, c) ==
    /\ c \in LogIds
    /\ (c > q.from_change_id \/ (q.is_inclusive /\ c = q.from_change_id))
    /\ (q.to_change_id = 0 \/ c <= q.to_change_id)

(***************************************************************************)
(* C6: in the reply of get_changes, an id whose Insert and Delete are both *)
(* logged in the replayed range (and so are all its Updates, which lie     *)
(* between them) has no entry at all: no Insert, no Update, no Delete.     *)
(***************************************************************************)
C6_CreatedAndDestroyedIsInvisible ==
    changelog # <<>> =>
        LET r == changelog[1]
            l == logs[r.pair]
        IN  \A id \in JMAPIds :
                (/\ \E c \in LogIds : Replayed(r.query, c) /\ id \in l[c].inserts
                 /\ \E c \in LogIds : Replayed(r.query, c) /\ id \in l[c].deletes)
                => \A i \in DOMAIN r.reply.changes : r.reply.changes[i][2] # id

C6_Witness ==
    /\ changelog # <<>>
    /\ changelog[1].reply.changes # <<>>
    /\ \E id \in JMAPIds, c1, c2, c3 \in LogIds :
        /\ c1 < c2 /\ c2 < c3
        /\ Replayed(changelog[1].query, c1)
        /\ Replayed(changelog[1].query, c3)
        /\ id \in logs[changelog[1].pair][c1].inserts
        /\ id \in logs[changelog[1].pair][c2].updates
        /\ id \in logs[changelog[1].pair][c3].deletes

(***************************************************************************)
(* C7: for all states s1 <= s2 <= head of a collection, the changes since  *)
(* s1 applied to the live set at s1, and the changes since s2 applied to   *)
(* the live set at s2, both give the live set at head.                     *)
(***************************************************************************)
C7_ChangesLeadToHead ==
    \A p \in DOMAIN logs :
        \A s1, s2 \in 0 .. LastIndex :
            s1 <= s2 =>
                /\ ApplyChanges(get_changes(logs[p], Since(s1)).changes,
                                LiveAt(logs[p], s1)) = LiveAt(logs[p], LastIndex)
                /\ ApplyChanges(get_changes(logs[p], Since(s2)).changes,
                                LiveAt(logs[p], s2)) = LiveAt(logs[p], LastIndex)

C7_Witness ==
    /\ changelog # <<>>
    /\ changelog[1].query = Since(1)
    /\ LastIndex = MaxLogIndex
    /\ LET l == logs[changelog[1].pair]
       IN  /\ LiveAt(l, 1) # {}
           /\ LiveAt(l, 1) \ LiveAt(l, LastIndex) # {}
           /\ LiveAt(l, LastIndex) \ LiveAt(l, 1) # {}
           /\ ApplyChanges(changelog[1].reply.changes, LiveAt(l, 1))
                = LiveAt(l, LastIndex)

(***************************************************************************)
(* C8: a compact_log(up_to) call that ends normally leaves, for every      *)
(* (account, collection) pair, a Snapshot at up_to that holds exactly the  *)
(* ids that the pair's own keys 1 .. up_to fold to, and the fold of each   *)
(* pair's keys up to the head is what it was before the call.              *)
(***************************************************************************)
C8_SnapshotHoldsOwnIds ==
    [][(compaction'.count = compaction.count + 1 /\ compaction'.panic = "")
        => \A p \in DOMAIN logs :
            LET x == compaction'.up_to[1]
            IN  /\ logs'[p][x].kind = "snapshot"
                    => logs'[p][x].ids = LiveAt(logs[p], x)
                /\ LiveAt(logs'[p], MaxLogIndex) = LiveAt(logs[p], MaxLogIndex)]_vars

(***************************************************************************)
(* C9: a compact_log(x) call made directly after a compact_log(x) call     *)
(* fails no assertion and leaves every pair's fold, at x and at every      *)
(* later change id, and the Raft keys as they were.                        *)
(***************************************************************************)
C9_SecondCompactIsNoOp ==
    [][(/\ compaction'.count = compaction.count + 1
        /\ compaction.up_to # <<>>
        /\ compaction'.up_to = compaction.up_to)
        => /\ compaction'.panic = ""
           /\ raft' = raft
           /\ \A p \in DOMAIN logs :
                \A c \in LogIds :
                    c >= compaction.up_to[1]
                    => LiveAt(logs'[p], c) = LiveAt(logs[p], c)]_vars



(***************************************************************************)
(* C11.  No lost wake-up: once commit_index(index) has sent its event, a   *)
(* commit index >= index published on the watch channel, whether before    *)
(* or after the waiter first awaits the channel, is never missed: the call *)
(* does not end on a false branch while such a publication stands.         *)
(* Published commit indexes only grow, so the publication stays readable.  *)
(***************************************************************************)
C11_NoLostWakeup ==
    [][/\ (waiter.pc = "wait" /\ waiter'.pc = "done"
           /\ commit_index_tx.version > waiter.sent_version
           /\ commit_index_tx.value >= waiter.index)
          => (waiter'.result /\ waiter'.branch = "committed")
       /\ (commit_index_tx.version > 0
           /\ commit_index_tx'.version # commit_index_tx.version)
          => commit_index_tx'.value > commit_index_tx.value]_vars

\* One publication after the event was sent and none later; the waiter's
\* first await found it and the call returned true.
C11_Witness ==
    /\ waiter.pc = "done"
    /\ waiter.result
    /\ waiter.branch = "committed"
    /\ waiter.sent_version = 0
    /\ commit_index_tx.version = 1
    /\ waiter.rx_version = commit_index_tx.version
    /\ now > waiter.wait_start

(***************************************************************************)
(* C13.  Every live Mail document is tagged with at least one mailbox,     *)
(* after any sequence of mail_set calls.                                   *)
(***************************************************************************)
C13_LiveMailInSomeMailbox ==
    \A d \in DocIds : messages[d].live => messages[d].mailboxes # {}

(***************************************************************************)
(* C14.  In one mail_set call, an update whose key denotes a live document *)
(* that an entry of destroy denotes as well is reported in notUpdated as   *)
(* WillDestroy and adds nothing to the write batch: no document mutation   *)
(* and no change-log entry.                                                *)
(***************************************************************************)
WillDestroyById(destroy, jmap_id_str) ==
    \E x \in destroy : from_jmap_string(x) = from_jmap_string(jmap_id_str)

C14_UpdateOfDestroyedIsSkipped ==
    [][\A c \in DOMAIN calls :
        \A jmap_id_str \in calls'[c].update \ calls[c].update :
            (/\ calls[c].pc = "update"
             /\ from_jmap_string(jmap_id_str)[1] \in calls[c].document_ids
             /\ WillDestroyById(calls[c].destroy, jmap_id_str))
            => /\ <<jmap_id_str, "WillDestroy">> \in calls'[c].not_updated
               /\ calls'[c].changes = calls[c].changes]_vars

(***************************************************************************)
(* C15.  The request created a mailbox under the creation id m1 (its       *)
(* DocumentId is the last of MailboxIds).  While mail_set processes its    *)
(* creates, "#m1" in mailboxIds resolves to that DocumentId, and a "#"     *)
(* reference resolves to nothing but a mailbox created under its id.       *)
(***************************************************************************)
CreatedMailboxes == {<<"m1", NMailboxes - 1>>}

C15_RefResolvesToCreatedMailbox ==
    \A c \in DOMAIN calls :
        calls[c].pc = "create" =>
            \A id_ref \in LocalIds :
                LET r == from_jmap_ref(id_ref, calls[c].created)
                IN  /\ \A e \in CreatedMailboxes : e[1] = id_ref => r = <<e[2]>>
                    /\ r # <<>> =>
                        \E e \in CreatedMailboxes : e[1] = id_ref /\ r = <<e[2]>>

(***************************************************************************)
(* C16.  A successful update of mail_set that changes whether $seen is set *)
(* on the message logs an Update of the message in Mail and a child-update *)
(* in Mailbox for every mailbox the message is tagged with; an update that *)
(* changes neither $seen nor the mailbox membership logs no child-update.  *)
(* The change is judged against the tags the update read from the store.   *)
(***************************************************************************)
C16_SeenToggleLogsMailboxes ==
    [][\A c \in DOMAIN calls :
        (/\ calls[c].pc = "update"
         /\ Len(calls'[c].changes.updates) = Len(calls[c].changes.updates) + 1)
        => LET batch == calls'[c].changes
               document == batch.updates[Len(batch.updates)]
               before == messages[document.id]
               after == ApplyUpdate(before, document)
               seen_changed == (SEEN \in before.keywords) # (SEEN \in after.keywords)
               mailboxes_changed == before.mailboxes # after.mailboxes
           IN  /\ seen_changed =>
                    /\ document.id \in batch.log_update
                    /\ before.mailboxes \cup after.mailboxes \subseteq batch.child_updates
               /\ (~seen_changed /\ ~mailboxes_changed) =>
                    batch.child_updates = calls[c].changes.child_updates]_vars

\* $seen was cleared by the only update of the call, which left the
\* mailboxes alone: both mailboxes of the message are logged.
C16_Witness ==
    \E c \in DOMAIN calls :
        /\ calls[c].pc = "update"
        /\ Len(calls[c].changes.updates) = 1
        /\ SEEN \in calls[c].changes.updates[1].untag_kw
        /\ calls[c].changes.updates[1].tag_mb \cup calls[c].changes.updates[1].untag_mb = {}
        /\ calls[c].changes.log_update = {calls[c].changes.updates[1].id}
        /\ calls[c].changes.child_updates = MailboxIds

(***************************************************************************)
(* C17.  A put of a blob whose file is absent returns true and stores the  *)
(* blob; a second put of the same blob right after a put that returned     *)
(* true returns false and leaves every file as it is.                      *)
(***************************************************************************)
C17_SecondPutIsNoOp ==
    [][\A b \in BlobIds :
        blob_stats'[b].puts = blob_stats[b].puts + 1 =>
            /\ ~files[b].exists =>
                /\ blob_op'.result = "true"
                /\ files'[b] = [exists |-> TRUE, bytes |-> BlobBytes(b)]
            /\ (blob_op.op = "put" /\ blob_op.blob_id = b /\ blob_op.result = "true")
                => (blob_op'.result = "false" /\ files' = files)]_vars

\* The longest blob was put twice and never deleted; the second put
\* returned false and the file holds the blob.
C17_Witness ==
    /\ blob_op.op = "put"
    /\ blob_op.blob_id = MaxBlobLen
    /\ blob_op.result = "false"
    /\ blob_stats[MaxBlobLen] = [puts |-> 2, deletes |-> 0]
    /\ files[MaxBlobLen] = [exists |-> TRUE, bytes |-> BlobBytes(MaxBlobLen)]

(***************************************************************************)
(* C18.  A blob that was put more often than it was deleted has its file,  *)
(* holding its bytes: the file is removed only by the delete that brings   *)
(* the puts minus the deletes to zero.                                     *)
(***************************************************************************)
C18_FileOutlivesEarlierDeletes ==
    \A b \in BlobIds :
        blob_stats[b].puts > blob_stats[b].deletes =>
            files[b] = [exists |-> TRUE, bytes |-> BlobBytes(b)]

(***************************************************************************)
(* C19.  For a range [start, end) with start <= end, get_range returns     *)
(* None for a missing blob and, for a file of length len, exactly the      *)
(* bytes at the offsets start .. min(end, len): nothing when start >= len. *)
(***************************************************************************)
C19_RangeIsClamped ==
    blob_op.op = "get_range" =>
        IF blob_op.file.exists
        THEN /\ blob_op.result = "some"
             /\ blob_op.data =
                    SubSeq(blob_op.file.bytes, blob_op.start + 1,
                           Min(blob_op.end, Len(blob_op.file.bytes)))
        ELSE blob_op.result = "none"

(***************************************************************************)
(* C20.  A get with an explicit ids list that returns a response has put   *)
(* every requested id occurrence in exactly one of list and not_found,     *)
(* both in request order; an occurrence is in not_found exactly when ids   *)
(* are validated and its DocumentId is not live, or its fetch returned     *)
(* None.  With ids = [] both lists are empty and no error is raised.       *)
(***************************************************************************)
RECURSIVE PickIds(_, _, _)
PickIds(ids, outcomes, wanted) ==
    IF ids = <<>> THEN <<>>
    ELSE (IF Head(outcomes) \in wanted THEN <<Head(ids)>> ELSE <<>>)
         \o PickIds(Tail(ids), Tail(outcomes), wanted)

C20_EveryIdListedOnce ==
    (get_helper.pc = "done" /\ get_helper.ids # <<>>) =>
        /\ get_helper.ids[1] = <<>> => get_helper.error = ""
        /\ get_helper.error = "" =>
            /\ get_helper.request_ids = get_helper.ids[1]
            /\ Len(get_helper.outcomes) = Len(get_helper.request_ids)
            /\ get_helper.list =
                PickIds(get_helper.request_ids, get_helper.outcomes, {"some"})
            /\ get_helper.not_found =
                PickIds(get_helper.request_ids, get_helper.outcomes,
                        {"none", "skipped"})
            /\ \A i \in DOMAIN get_helper.request_ids :
                (get_helper.outcomes[i] # "some") <=>
                    \/ /\ get_helper.validate_ids
                       /\ get_document_id(get_helper.request_ids[i])
                            \notin get_helper.document_ids
                    \/ get_helper.outcomes[i] = "none"

\* Two ids were asked for under validation: the first is not live, the
\* second was fetched.
C20_Witness ==
    /\ get_helper.pc = "done"
    /\ get_helper.error = ""
    /\ get_helper.ids # <<>>
    /\ get_helper.validate_ids
    /\ get_helper.outcomes = <<"skipped", "some">>
    /\ get_helper.list = <<get_helper.request_ids[2]>>
    /\ get_helper.not_found = <<get_helper.request_ids[1]>>

(***************************************************************************)
(* C21.  A get never processes more than max_objects_in_get ids.  An       *)
(* explicit ids list longer than the cap fails with RequestTooLarge with   *)
(* nothing fetched, and a list of at most the cap is taken as it is.  When *)
(* ids is absent and a mapper was given, the processed list is the mapped  *)
(* image of the smallest max_objects_in_get live DocumentIds in ascending  *)
(* order; when no mapper was given it is empty.                            *)
(***************************************************************************)
C21_GetIsCapped ==
    LET h == get_helper
        n == Len(h.request_ids)
    IN  h.pc \in {"get", "done"} =>
        /\ n <= MaxObjectsInGet
        /\ Len(h.outcomes) <= MaxObjectsInGet
        /\ h.ids # <<>> =>
            IF Len(h.ids[1]) > MaxObjectsInGet
            THEN /\ h.pc = "done" /\ h.error = "RequestTooLarge"
                 /\ h.outcomes = <<>> /\ h.list = <<>> /\ h.not_found = <<>>
            ELSE /\ h.error # "RequestTooLarge"
                 /\ h.request_ids = h.ids[1]
        /\ (h.ids = <<>> /\ ~h.validate_ids) =>
            h.request_ids = <<>> /\ h.error # "RequestTooLarge"
        /\ (h.ids = <<>> /\ h.validate_ids) =>
            /\ h.error # "RequestTooLarge"
            /\ n = Min(Cardinality(h.live), MaxObjectsInGet)
            /\ \A i \in 1 .. n :
                /\ h.request_ids[i][1] = 0
                /\ h.request_ids[i][2] \in h.live
                /\ \A j \in 1 .. n : i < j =>
                    h.request_ids[i][2] < h.request_ids[j][2]
                /\ \A d \in h.live :
                    (\A j \in 1 .. n : h.request_ids[j][2] # d) =>
                        h.request_ids[i][2] < d

\* More documents are live than a get processes, no ids were named, and
\* the get has gone through all of the capped list.
C21_Witness ==
    /\ get_helper.pc = "done"
    /\ get_helper.error = ""
    /\ get_helper.ids = <<>>
    /\ get_helper.validate_ids
    /\ Cardinality(get_helper.live) > MaxObjectsInGet
    /\ Len(get_helper.request_ids) = MaxObjectsInGet
    /\ Len(get_helper.outcomes) = MaxObjectsInGet

(***************************************************************************)
(* C22.  Whatever acl_update, acl_set, acl_revoke and acl_clear calls were *)
(* made on a list that started empty, after acl_finish the list is in      *)
(* strictly ascending order of AccountId (so no two entries share an id)   *)
(* and no entry has an empty permission bitmap.                            *)
(***************************************************************************)
C22_FinishedAclIsSortedSet ==
    orm.finished =>
        /\ \A i, j \in DOMAIN orm.acls : i < j => orm.acls[i].id < orm.acls[j].id
        /\ \A i \in DOMAIN orm.acls : orm.acls[i].acl # {}

\* acl_finish found the entries of all accounts in descending order.
C22_Witness ==
    /\ orm.finished
    /\ Len(orm.acls) = NAccounts
    /\ orm.sorted_from # orm.acls
    /\ \A i, j \in DOMAIN orm.sorted_from :
        i < j => orm.sorted_from[i].id > orm.sorted_from[j].id

(***************************************************************************)
(* C23.  When a finished list is compared with the saved previous          *)
(* revision, get_changed_acls returns one Permission for exactly the       *)
(* accounts whose entry is not the same in both, its bitmap the union of   *)
(* the account's bitmaps on the two sides; it returns None exactly when    *)
(* both hold the same entries; and the reply is the same with the two      *)
(* revisions exchanged.                                                    *)
(***************************************************************************)
\* The bitmap an account has in a list; no bitmap when it has no entry.
BitmapOf(acls, account_id) ==
    UNION {acls[i].acl : i \in {j \in DOMAIN acls : acls[j].id = account_id}}

C24_IdRoundTrip ==
    codec.op = "to_jmap_string" =>
        /\ codec.parsed = <<codec.id>>
        /\ Len(codec.string) >= 2
        /\ codec.string[1] = "i"
        /\ \A k \in 2 .. Len(codec.string) :
            \E d \in DOMAIN LowerHex : LowerHex[d] = codec.string[k]

\* The largest id: as many digits as an id has, all of them letters.
C24_Witness ==
    /\ codec.op = "to_jmap_string"
    /\ codec.id = JMAPIdMAX
    /\ codec.string = <<"i">> \o [k \in 1 .. IdHexDigits |-> "f"]
    /\ codec.parsed = <<JMAPIdMAX>>

(***************************************************************************)
(* C25.  from_jmap_string returns Some exactly for 'i' followed by one or  *)
(* more lowercase hexadecimal digits whose value fits in an id, and then   *)
(* the value of those digits; an uppercase digit, a sign, an empty         *)
(* remainder or another first character gives None.                        *)
(***************************************************************************)
IsLowerHex(c) == \E d \in DOMAIN LowerHex : LowerHex[d] = c

RECURSIVE LowerHexValue(_)
LowerHexValue(digits) ==
    IF digits = <<>> THEN 0
    ELSE LowerHexValue(SubSeq(digits, 1, Len(digits) - 1)) * 16
         + (CHOOSE d \in DOMAIN LowerHex : LowerHex[d] = digits[Len(digits)]) - 1

C25_OnlyLowercaseHexParses ==
    codec.op = "from_jmap_string" =>
        LET s == codec.string
            well_formed ==
                /\ Len(s) >= 2
                /\ s[1] = "i"
                /\ \A k \in 2 .. Len(s) : IsLowerHex(s[k])
                /\ LowerHexValue(Tail(s)) <= JMAPIdMAX
        IN  IF well_formed
            THEN codec.parsed = <<LowerHexValue(Tail(s))>>
            ELSE codec.parsed = <<>>

(***************************************************************************)
(* C27.  The list get_changes returns for a range of a log in which ids    *)
(* are inserted when not live, updated and deleted when live, and never    *)
(* inserted again, holds at most one entry per id: Insert exactly for the  *)
(* ids created in the range and live at its end, Update exactly for the    *)
(* ids that were live before the range, are live at its end and were       *)
(* updated in it, Delete exactly for the ids that were live before the     *)
(* range and are not at its end.                                           *)
(***************************************************************************)
\* The live ids before the first and after the last change id of a query
\* (the same ids when the range is empty).
LiveBefore(l, q) ==
    LiveAt(l, (IF q.is_inclusive THEN q.from_change_id
               ELSE q.from_change_id + 1) - 1)
LiveAfter(l, q) ==
    IF \E c \in LogIds : Replayed(q, c)
    THEN LiveAt(l, CHOOSE c \in LogIds :
                    Replayed(q, c) /\ \A d \in LogIds : Replayed(q, d) => d <= c)
    ELSE LiveBefore(l, q)

HasEntry(changes, entry) == \E i \in DOMAIN changes : changes[i] = entry

C27_OneEntryPerId ==
    changelog # <<>> =>
        LET r == changelog[1]
            l == logs[r.pair]
            changes == r.reply.changes
            before == LiveBefore(l, r.query)
            after == LiveAfter(l, r.query)
        IN  \A id \in JMAPIds :
            /\ Cardinality({i \in DOMAIN changes : changes[i][2] = id}) <= 1
            /\ HasEntry(changes, Insert(id)) <=>
                (id \notin before /\ id \in after)
            /\ HasEntry(changes, Update(id)) <=>
                /\ id \in before /\ id \in after
                /\ \E c \in LogIds : Replayed(r.query, c) /\ id \in l[c].updates
            /\ HasEntry(changes, Delete(id)) <=>
                (id \in before /\ id \notin after)

\* One id is created and updated in the range, another that existed
\* before it is updated and then deleted in it: the list is the Insert of
\* the first and the Delete of the second.
C27_Witness ==
    /\ changelog # <<>>
    /\ \E a, b \in JMAPIds, c1, c2 \in LogIds :
        LET r == changelog[1]
            l == logs[r.pair]
        IN  /\ a # b
            /\ c1 < c2
            /\ Replayed(r.query, c1) /\ Replayed(r.query, c2)
            /\ b \in LiveBefore(l, r.query)
            /\ a \in l[c1].inserts /\ b \in l[c1].updates
            /\ a \in l[c2].updates /\ b \in l[c2].deletes
            /\ r.reply.changes = <<Insert(a), Delete(b)>>

(***************************************************************************)
(* C28.  get_changes replays, in ascending order of change id, exactly the *)
(* entries of the pair whose change id c the query asks for: every c for   *)
(* All, c > x for Since(x), c >= x for SinceInclusive(x), a <= c <= b for  *)
(* RangeInclusive(a, b), whatever b is; and when an entry is replayed,     *)
(* from_change_id is the smallest and to_change_id the largest of the      *)
(* replayed change ids.                                                    *)
(***************************************************************************)
\* What the query asks for, by its form.
Asked(q, c) ==
    CASE q.form = "All" -> TRUE
      [] q.form = "Since" -> c > q.from_change_id
      [] q.form = "SinceInclusive" -> c >= q.from_change_id
      [] q.form = "RangeInclusive" ->
            q.from_change_id <= c /\ c <= q.to_change_id

AskedEntries(l, q) == {c \in LogIds : l[c].kind # "none" /\ Asked(q, c)}

\* The entries cs of a log, replayed in ascending order.
RECURSIVE ReplayInOrder(_, _, _)
ReplayInOrder(l, cs, changes) ==
    IF cs = {} THEN changes
    ELSE LET c == CHOOSE x \in cs : \A y \in cs : x <= y
         IN  ReplayInOrder(l, cs \ {c}, deserialize(changes, l[c]))

C28_ReplaysWhatWasAsked ==
    changelog # <<>> =>
        LET r == changelog[1]
            l == logs[r.pair]
            cs == AskedEntries(l, r.query)
        IN  /\ r.reply.changes = ReplayInOrder(l, cs, <<>>)
            /\ cs # {} =>
                /\ r.reply.from_change_id \in cs
                /\ r.reply.to_change_id \in cs
                /\ \A c \in cs : /\ r.reply.from_change_id <= c
                                 /\ c <= r.reply.to_change_id

(***************************************************************************)
(* C29.  When the pair has no entry the query asks for, get_changes        *)
(* returns an empty list, and from_change_id and to_change_id are both the *)
(* bound the query gave.  (Stated for the queries with an upper bound      *)
(* above 0 or none.)                                                       *)
(***************************************************************************)
C29_EmptyReplyKeepsBound ==
    changelog # <<>> =>
        LET r == changelog[1]
            q == r.query
        IN  (/\ AskedEntries(logs[r.pair], q) = {}
             /\ ~(q.form = "RangeInclusive" /\ q.to_change_id = 0))
            => /\ r.reply.changes = <<>>
               /\ r.reply.from_change_id = q.from_change_id
               /\ r.reply.to_change_id = q.from_change_id

(***************************************************************************)
(* C30.  get_last_change_id of a pair returns the greatest change id that  *)
(* was written for this pair, and None when the pair has no entry,         *)
(* whatever other pairs hold.                                              *)
(***************************************************************************)
C30_LastChangeIdIsOfThePair ==
    last_change # <<>> =>
        LET r == last_change[1]
            own == {c \in LogIds : logs[r.pair][c].kind # "none"}
        IN  IF own = {} THEN r.reply = <<>>
            ELSE /\ r.reply # <<>>
                 /\ r.reply[1] \in own
                 /\ \A c \in own : c <= r.reply[1]

(***************************************************************************)
(* C31: compact_log(up_to) leaves every change-log key with a change id    *)
(* above up_to and every Raft key with an index above up_to as it was:     *)
(* the same keys hold the same values after the call, in a debug and in a  *)
(* release build, whether or not the call ends in a failed assertion.      *)
(***************************************************************************)
C31_CompactKeepsLaterEntries ==
    [][compaction'.count = compaction.count + 1
        => LET up_to == compaction'.up_to[1]
           IN  /\ \A p \in DOMAIN logs :
                    \A c \in LogIds : c > up_to => logs'[p][c] = logs[p][c]
               /\ \A i \in LogIds : i > up_to => raft'[i] = raft[i]]_vars

\* A call has compacted the log below a later batch: a Snapshot stands at
\* up_to in both logs, and the entry and the Raft Item above it are there.
C31_Witness ==
    /\ compaction.up_to # <<>>
    /\ compaction.panic = ""
    /\ LET up_to == compaction.up_to[1]
       IN  /\ up_to > 1
           /\ raft[up_to].kind = "snapshot"
           /\ \E p \in DOMAIN logs : logs[p][up_to].kind = "snapshot"
           /\ \E i \in LogIds :
                /\ i > up_to
                /\ raft[i].kind = "item"
                /\ \E p \in DOMAIN logs : logs[p][i].kind = "entry"

(***************************************************************************)
(* C32: a compact_log(up_to) call that reaches its Raft phase (a change    *)
(* key with the change id up_to exists and the change phase ends without   *)
(* a failed assertion), made while a Raft entry is stored at index up_to,  *)
(* leaves one Raft entry at or below up_to: a Snapshot at index up_to,     *)
(* keyed with the term of the entry that was stored there, whose pairs are *)
(* the union of the pairs of all Raft entries that were at or below up_to. *)
(***************************************************************************)
C32_RaftSnapshotIsUnion ==
    [][(/\ compaction'.count = compaction.count + 1
        /\ compaction'.panic # "inserted_ids.is_empty()"
        /\ \E p \in DOMAIN logs : logs[p][compaction'.up_to[1]].kind # "none"
        /\ raft[compaction'.up_to[1]].kind # "none")
        => LET up_to == compaction'.up_to[1]
           IN  /\ \A i \in LogIds : i < up_to => raft'[i] = NoRaft
               /\ raft'[up_to] =
                    [kind |-> "snapshot",
                     term |-> raft[up_to].term,
                     changed |-> UNION {raft[i].changed :
                                          i \in {j \in LogIds : j <= up_to}}]]_vars

\* A call has folded an earlier-term Item and a Snapshot of an earlier
\* compaction into the Snapshot at up_to, which carries the later term.
C32_Witness ==
    /\ compaction.up_to # <<>>
    /\ compaction.count = 2
    /\ compaction.panic = ""
    /\ LET up_to == compaction.up_to[1]
       IN  /\ up_to = MaxLogIndex
           /\ raft[up_to].kind = "snapshot"
           /\ raft[up_to].term = <<MaxTerm>>
           /\ raft[up_to].changed = DOMAIN logs
           /\ \A i \in LogIds : i < up_to => raft[i] = NoRaft

(***************************************************************************)
(* C33: on a log written by LogWriter batches and compact_log calls with   *)
(* any up_to, a compact_log(up_to) call that reaches its Raft phase finds  *)
(* a Raft entry stored at index up_to, a Raft Snapshot at or below up_to   *)
(* is the first Raft entry of the walk, and the call writes no Raft        *)
(* Snapshot keyed with the term TermId::MAX (the empty term here).         *)
(***************************************************************************)
C33_NeverSnapshotWithMaxTerm ==
    [][compaction'.count = compaction.count + 1
        => LET up_to == compaction'.up_to[1]
               reached == /\ \E p \in DOMAIN logs : logs[p][up_to].kind # "none"
                          /\ compaction'.panic # "inserted_ids.is_empty()"
           IN  /\ reached => raft[up_to].kind # "none"
               /\ reached =>
                    \A i \in LogIds :
                        (i <= up_to /\ raft[i].kind = "snapshot")
                        => \A j \in LogIds : j < i => raft[j].kind = "none"
               /\ raft'[up_to].kind = "snapshot" => raft'[up_to].term # <<>>]_vars

(***************************************************************************)
(* C34: a compact_log(up_to) call made while no change key has the change  *)
(* id up_to leaves the Logs as they were: no key is deleted and no         *)
(* Snapshot is written, in the change log or in the Raft log, however many *)
(* (account, collection) pairs have keys below up_to.                      *)
(***************************************************************************)
C34_NoEntryAtUpToIsNoOp ==
    [][(/\ compaction'.count = compaction.count + 1
        /\ \A p \in DOMAIN logs : logs[p][compaction'.up_to[1]].kind = "none")
        => logs' = logs /\ raft' = raft]_vars

(***************************************************************************)
(* C35: whatever replies advance_commit_index is called with, a peer's     *)
(* recorded commit_index, once set (not LogIndex::MAX), stays set and      *)
(* never decreases; the leader's last_log.index, once set, stays set and   *)
(* never decreases; and every value published on the commit-index channel  *)
(* is an index greater than the value published before it.                 *)
(***************************************************************************)
C35_CommitIndexesAreMonotonic ==
    [][/\ \A p \in PeerIds :
            peers[p].commit_index # LogIndexMAX
            => /\ peers'[p].commit_index # LogIndexMAX
               /\ peers'[p].commit_index >= peers[p].commit_index
       /\ last_log.index # LogIndexMAX
            => /\ last_log'.index # LogIndexMAX
               /\ last_log'.index >= last_log.index
       /\ commit_index_tx'.version # commit_index_tx.version
            => /\ commit_index_tx'.value # LogIndexMAX
               /\ \/ commit_index_tx.version = 0
                  \/ commit_index_tx'.value > commit_index_tx.value]_vars

(***************************************************************************)
(* C36: when mail_set writes an accepted update of a message whose patch   *)
(* addresses a property in one way, the message's set is afterwards: for a *)
(* bare keywords (mailboxIds) property with the map M, exactly the keys of *)
(* M whose value is true; for keywords/k (mailboxIds/k) paths, the set it  *)
(* was, with each k of a true path added, each k of a false or null path   *)
(* removed, and every member that no path names as it was.                 *)
(***************************************************************************)
OpsOf(patch, field) ==
    {patch[i] : i \in {j \in DOMAIN patch : patch[j].field = field}}

\* What the entries of one property ask of the set `before`.
Asks(ops, before, after) ==
    /\ \A o \in ops : ~o.path => after = o.kws \cup o.mbs
    /\ (\A o \in ops : o.path) =>
        LET named == UNION {o.kws \cup o.mbs : o \in ops}
            added == UNION {o.kws \cup o.mbs : o \in {q \in ops : q.value}}
        IN  after = (before \ named) \cup added

C40_RejectedUpdateAddsNothing ==
    [][\A c \in DOMAIN calls :
        /\ (/\ calls[c].pc = "update" /\ calls'[c].pc = "update"
            /\ calls'[c].not_updated # calls[c].not_updated)
           => calls'[c].changes = calls[c].changes
        /\ (calls[c].pc = "update" /\ calls'[c].pc = "reread")
           => \A e \in calls[c].not_updated :
                LET d == from_jmap_string(e[1])[1]
                IN  (/\ d \notin calls'[c].changes.log_update
                     /\ d \notin calls'[c].changes.log_delete)
                    => messages'[d] = messages[d]]_vars

\* A call has rejected one update whose patch names a mailbox that does not
\* exist and one whose patch changes nothing, and its batch is empty.
C40_Witness ==
    \E c \in DOMAIN calls :
        /\ calls[c].pc = "update"
        /\ \E e \in calls[c].not_updated : e[2] = "InvalidProperties"
        /\ \E e \in calls[c].not_updated : e[2] = "InvalidPatch"
        /\ calls[c].changes = EmptyBatch

(***************************************************************************)
(* C37.  When every caller has put the same blob and has returned, exactly *)
(* one of the calls returned true, the others returned false, and the      *)
(* file holds the blob.                                                    *)
(***************************************************************************)
C37_ExactlyOnePutWrites ==
    \A b \in BlobIds :
        (\A t \in Callers : put_calls[t].pc = "done" /\ put_calls[t].blob_id = b)
            => /\ Cardinality({t \in Callers : put_calls[t].result = "true"}) = 1
               /\ \A t \in Callers : put_calls[t].result \in {"true", "false"}
               /\ files[b] = [exists |-> TRUE, bytes |-> BlobBytes(b)]

(***************************************************************************)
(* C38.  With one put after another: a put that finds a file shorter than  *)
(* its blob goes on to File::create, it does not return false.  A put of a *)
(* blob that has returned after an interrupted put of that blob left the   *)
(* file holding the blob, and returned true unless another put had         *)
(* rewritten the file before it; a get_range(0 .. u32::MAX) of the blob    *)
(* made afterwards returns the blob's bytes.                               *)
(***************************************************************************)
C38_RetryRewritesTruncatedFile ==
    /\ [][\A t \in Callers :
            LET b == put_calls[t].blob_id
            IN  (/\ put_calls[t].pc = "check"
                 /\ put_calls'[t].pc # "check"
                 /\ files[b].exists
                 /\ Len(files[b].bytes) < Len(BlobBytes(b)))
                    => put_calls'[t].pc = "create"]_vars
    /\ [](\A t, u \in Callers :
            LET b == put_calls[t].blob_id
            IN  (/\ put_calls[u].pc = "failed"
                 /\ put_calls[u].blob_id = b
                 /\ put_calls[t].pc = "done")
                    => /\ \/ put_calls[t].result = "true"
                          \/ /\ put_calls[t].result = "false"
                             /\ \E v \in Callers \ {t} :
                                    /\ put_calls[v].blob_id = b
                                    /\ put_calls[v].result = "true"
                       /\ files[b] = [exists |-> TRUE, bytes |-> BlobBytes(b)]
                       /\ (/\ blob_op.op = "get_range"
                           /\ blob_op.blob_id = b
                           /\ blob_op.start = 0
                           /\ blob_op.end = U32MAX)
                            => (blob_op.result = "some" /\ blob_op.data = BlobBytes(b)))

\* The first put of the longest blob ended with one byte written; the
\* second put of it returned true, and the whole blob was read back.
C38_Witness ==
    /\ put_calls[1] = [pc |-> "failed", blob_id |-> MaxBlobLen, written |-> 1, result |-> "err"]
    /\ put_calls[2] = [pc |-> "done", blob_id |-> MaxBlobLen, written |-> MaxBlobLen, result |-> "true"]
    /\ blob_op.op = "get_range"
    /\ blob_op.start = 0
    /\ blob_op.end = U32MAX
    /\ blob_op.blob_id = MaxBlobLen
    /\ blob_op.data = BlobBytes(MaxBlobLen)

\* The MimePart tree of part i: the parts of a multipart/* part are the
\* trees of the entries of its subParts array, in the array's order.
RECURSIVE MimeTree(_, _)
MimeTree(tree, i) ==
    LET sub == IF tree.kind[i] = "multipart" THEN subParts(tree, i) ELSE <<>>
    IN  [part |-> i,
         multipart |-> tree.kind[i] \in {"multipart", "multipart_no_sub_parts"},
         parts |-> [k \in 1 .. Len(sub) |-> MimeTree(tree, sub[k])]]

\* The parts of the tree of part i, a part before its sub parts.
RECURSIVE PartsOf(_, _)
PartsOf(tree, i) ==
    {i} \cup IF tree.kind[i] = "multipart"
             THEN UNION {PartsOf(tree, j) : j \in {k \in 1 .. tree.n : tree.parent[k] = i}}
             ELSE {}

(***************************************************************************)
(* C39.  Every call of import_body_structure returns.  When no part of the *)
(* bodyStructure is invalid it returns the MimePart tree of the root: each *)
(* part under its own multipart parent, siblings in the order of subParts, *)
(* at every depth.  Otherwise it returns the error of an invalid part of   *)
(* the bodyStructure.                                                      *)
(***************************************************************************)
C39_ImportKeepsTheShape ==
    /\ <>(body_import.pc = "done")
    /\ [](body_import.pc = "done" =>
            LET tree == body_import.part
                invalid == {i \in PartsOf(tree, 1) : tree.kind[i] = "invalid"}
                result == body_import.result[1]
            IN  IF invalid = {}
                THEN result = [ok |-> TRUE, mime_part |-> MimeTree(tree, 1)]
                ELSE ~result.ok /\ result.error \in invalid)

\* A multipart root whose first part is a multipart holding a leaf and
\* whose second part is a leaf: the call returned the nested tree.
C39_Witness ==
    /\ body_import.pc = "done"
    /\ body_import.part.n = 4
    /\ body_import.part.parent = <<0, 1, 2, 1>>
    /\ body_import.part.kind = <<"multipart", "multipart", "leaf", "leaf">>
    /\ body_import.result[1].ok
    /\ body_import.result[1].mime_part =
        [part |-> 1, multipart |-> TRUE, parts |-> <<
            [part |-> 2, multipart |-> TRUE, parts |-> <<
                [part |-> 3, multipart |-> FALSE, parts |-> <<>>]>>],
            [part |-> 4, multipart |-> FALSE, parts |-> <<>>]>>]

=============================================================================
